---- MODULE Spec2Model ----
(***************************************************************************)
(* Model of the University Connect bot (fitsumhub/dbucouple_bot).          *)
(*                                                                         *)
(* The store is the SQLite schema of database.py (users, likes, matches,   *)
(* blocks, favorites, reports) as sets of rows; the queries of             *)
(* models/user_model.py are operators over those sets; the handlers of     *)
(* handlers/*.py are the actions.  A handler runs without interruption up  *)
(* to its first await; the part of a handler that follows its awaits       *)
(* (show_next_profile) is a second step, so that handlers of different     *)
(* users interleave at await points.                                       *)
(*                                                                         *)
(* Every store call can raise (the try/except of each function of          *)
(* user_model.py): the handler actions take the failing call as an input.  *)
(*                                                                         *)
(* Texts are sequences of one-letter strings; <<"C","S">> stands for       *)
(* "Computer Science", <<"E","N">> for "Engineering", <<"B","U">> for      *)
(* "Business".                                                             *)
(***************************************************************************)
EXTENDS Integers, Sequences, FiniteSets, TLC

VARIABLES
    users,      \* users table: user_id -> profile row (DOMAIN = stored ids)
    likes,      \* likes table: set of <<liker_id, liked_id>>
    matches,    \* matches table: set of <<user1_id, user2_id>>
    blocks,     \* blocks table: set of <<blocker_id, blocked_id>>
    favorites,  \* favorites table: set of <<user_id, favorite_id>>
    reports,    \* reports table: set of <<reporter_id, reported_id, reason>>
    prefs,      \* context.user_data['preferences'] of each user that has one
    session,    \* context.user_data of each user, the registration keys:
                \* [step, name, age, department, bio, reporting_id]
    pc,         \* per user: the handler in flight, [step, cmd, arg, matched]
    sent,       \* the last message the bot sent: [to, kind, about]
    requests,   \* RateLimiter._requests: user_id -> sequence of timestamps
    banned,     \* RateLimiter._banned: user_id -> ban_until (DOMAIN = banned ids)
    now,        \* time(): the clock read by is_allowed, in milliseconds
    verdict,    \* the result of the last is_allowed call
    config,     \* the limits config.py loads: [max_requests, time_window, ban_duration]
    scheduler,  \* utils/scheduler.py, the TaskScheduler: running, the list _tasks
                \* (of each task its loop and whether it is live, has a
                \* cancellation pending, or is done), and the stop calls that
                \* are awaiting their gather (each the length of _tasks it saw)
    ref,        \* where on is set, beside the limiter and fed the same calls:
                \* the limiter that prunes before its ban check, [requests,
                \* banned, allowed], and log, per user the times of the allowed
                \* calls of the window
    called      \* the last call made to the store from outside the handlers:
                \* [fn, args, result]

storeVars == <<users, likes, matches, blocks, favorites, reports>>
chatVars == <<prefs, session, pc, sent>>
limiterVars == <<requests, banned, now, verdict, config, ref, scheduler>>
vars == <<users, likes, matches, blocks, favorites, reports, prefs, session, pc, sent,
          requests, banned, now, verdict, config, ref, scheduler, called>>

----------------------------------------------------------------------------
(* Bounds *)

\* user ids are 1..NumIds
NumIds == 2

Ids == 1..NumIds

\* the clock stops at MaxTime seconds
MaxTime == 330

\* config.py
RATE_LIMIT_REQUESTS == 10
RATE_LIMIT_WINDOW == 60
RATE_LIMIT_BAN_DURATION == 300

\* Python's None for an absent integer filter (ages are never 0)
None == 0

\* Python's None / empty string for an absent department filter
NoText == <<>>

----------------------------------------------------------------------------
(* Texts *)

Lower(c) ==
    CASE c = "C" -> "c"
      [] c = "S" -> "s"
      [] c = "E" -> "e"
      [] c = "N" -> "n"
      [] c = "B" -> "b"
      [] c = "U" -> "u"
      [] OTHER -> c

\* SQLite's  department LIKE '%pat%' : substring containment, ASCII case folded
LikeContains(s, pat) ==
    \E i \in 1..(Len(s) - Len(pat) + 1) :
        \A j \in 1..Len(pat) : Lower(s[i + j - 1]) = Lower(pat[j])

----------------------------------------------------------------------------
(* database.py *)

\* _connect opens the connection and never issues PRAGMA foreign_keys = ON,
\* so SQLite leaves the FOREIGN KEY clauses of the schema unenforced.
foreign_keys == FALSE

\* The check SQLite makes on an insert of a row referencing users(user_id).
ForeignKeyOk(U, a, b) == foreign_keys => (a \in DOMAIN U /\ b \in DOMAIN U)

----------------------------------------------------------------------------
(* models/user_model.py: each operator returns what the function returns    *)
(* and, for a write, the table after it.  raised = the store call raises.   *)

\* save_user as INSERT OR IGNORE: a stored row is kept
save_user_ignore(U, user_id, profile, raised) ==
    IF raised
    THEN [ok |-> FALSE, users |-> U]
    ELSE [ok |-> TRUE,
          users |-> [x \in DOMAIN U \cup {user_id} |->
                        IF x \in DOMAIN U THEN U[x] ELSE profile]]

\* INSERT OR REPLACE INTO users
save_user(U, user_id, profile, raised) ==
    IF raised
    THEN [ok |-> FALSE, users |-> U]
    ELSE [ok |-> TRUE,
          users |-> [x \in DOMAIN U \cup {user_id} |->
                        IF x = user_id THEN profile ELSE U[x]]]

user_exists(U, user_id) == user_id \in DOMAIN U

\* add_like as a toggle: a like that is already stored is deleted
add_like_toggle(U, L, liker_id, liked_id, raised) ==
    IF raised \/ ~ForeignKeyOk(U, liker_id, liked_id)
    THEN [ok |-> FALSE, likes |-> L]
    ELSE [ok |-> TRUE,
          likes |-> IF <<liker_id, liked_id>> \in L
                    THEN L \ {<<liker_id, liked_id>>}
                    ELSE L \cup {<<liker_id, liked_id>>}]

\* add_like whose failed transaction is not rolled back: the row stays
add_like_no_rollback(U, L, liker_id, liked_id, raised) ==
    [ok |-> ~(raised \/ ~ForeignKeyOk(U, liker_id, liked_id)),
     likes |-> L \cup {<<liker_id, liked_id>>}]

\* INSERT OR IGNORE INTO likes (liker_id, liked_id)
add_like(U, L, liker_id, liked_id, raised) ==
    IF raised \/ ~ForeignKeyOk(U, liker_id, liked_id)
    THEN [ok |-> FALSE, likes |-> L]
    ELSE [ok |-> TRUE, likes |-> L \cup {<<liker_id, liked_id>>}]

\* check_match with its parameters bound as (user2_id, user2_id)
check_match_param_slip(L, user1_id, user2_id, raised) ==
    IF raised THEN FALSE ELSE <<user2_id, user2_id>> \in L

\* SELECT * FROM likes WHERE liker_id = user2_id AND liked_id = user1_id
check_match(L, user1_id, user2_id, raised) ==
    IF raised THEN FALSE ELSE <<user2_id, user1_id>> \in L

Min(a, b) == IF a <= b THEN a ELSE b
Max(a, b) == IF a <= b THEN b ELSE a

\* save_match storing the pair in the order given
save_match_unordered(U, M, user1_id, user2_id, raised) ==
    IF raised \/ ~ForeignKeyOk(U, user1_id, user2_id)
    THEN [ok |-> FALSE, matches |-> M]
    ELSE [ok |-> TRUE, matches |-> M \cup {<<user1_id, user2_id>>}]

\* save_match whose insert is never committed
save_match_uncommitted(U, M, user1_id, user2_id, raised) ==
    [ok |-> ~raised, matches |-> M]

\* INSERT OR IGNORE INTO matches (min, max)
save_match(U, M, user1_id, user2_id, raised) ==
    IF raised \/ ~ForeignKeyOk(U, user1_id, user2_id)
    THEN [ok |-> FALSE, matches |-> M]
    ELSE [ok |-> TRUE,
          matches |-> M \cup {<<Min(user1_id, user2_id), Max(user1_id, user2_id)>>}]

\* get_user_matches without its  u.user_id != ?  clause
get_user_matches_with_self(U, L, user_id) ==
    {u \in DOMAIN U : /\ <<user_id, u>> \in L
                      /\ <<u, user_id>> \in L}

\* SELECT DISTINCT u.* FROM users u WHERE EXISTS(like user->u) AND EXISTS(like u->user) AND u != user
get_user_matches(U, L, user_id) ==
    {u \in DOMAIN U : /\ <<user_id, u>> \in L
                      /\ <<u, user_id>> \in L
                      /\ u # user_id}

\* get_users_who_liked_me without its NOT EXISTS clause
get_users_who_liked_me_all(U, L, user_id) ==
    {u \in DOMAIN U : /\ <<u, user_id>> \in L
                      /\ u # user_id}

\* SELECT DISTINCT u.* FROM users u JOIN likes l ON l.liker_id = u.user_id
\*  WHERE l.liked_id = user AND NOT EXISTS(like user->u) AND u != user
get_users_who_liked_me(U, L, user_id) ==
    {u \in DOMAIN U : /\ <<u, user_id>> \in L
                      /\ <<user_id, u>> \notin L
                      /\ u # user_id}

\* block_user as a toggle: a block that is already stored is deleted
block_user_toggle(U, B, blocker_id, blocked_id, raised) ==
    IF raised \/ ~ForeignKeyOk(U, blocker_id, blocked_id)
    THEN [ok |-> FALSE, blocks |-> B]
    ELSE [ok |-> TRUE,
          blocks |-> IF <<blocker_id, blocked_id>> \in B
                     THEN B \ {<<blocker_id, blocked_id>>}
                     ELSE B \cup {<<blocker_id, blocked_id>>}]

\* INSERT OR IGNORE INTO blocks (blocker_id, blocked_id)
block_user(U, B, blocker_id, blocked_id, raised) ==
    IF raised \/ ~ForeignKeyOk(U, blocker_id, blocked_id)
    THEN [ok |-> FALSE, blocks |-> B]
    ELSE [ok |-> TRUE, blocks |-> B \cup {<<blocker_id, blocked_id>>}]

\* add_favorite as a toggle: a favorite that is already stored is deleted
add_favorite_toggle(U, F, user_id, favorite_id, raised) ==
    IF raised \/ ~ForeignKeyOk(U, user_id, favorite_id)
    THEN [ok |-> FALSE, favorites |-> F]
    ELSE [ok |-> TRUE,
          favorites |-> IF <<user_id, favorite_id>> \in F
                        THEN F \ {<<user_id, favorite_id>>}
                        ELSE F \cup {<<user_id, favorite_id>>}]

\* INSERT OR IGNORE INTO favorites (user_id, favorite_id)
add_favorite(U, F, user_id, favorite_id, raised) ==
    IF raised \/ ~ForeignKeyOk(U, user_id, favorite_id)
    THEN [ok |-> FALSE, favorites |-> F]
    ELSE [ok |-> TRUE, favorites |-> F \cup {<<user_id, favorite_id>>}]

\* DELETE FROM favorites WHERE user_id = ? AND favorite_id = ?
remove_favorite(F, user_id, favorite_id, raised) ==
    IF raised
    THEN [ok |-> FALSE, favorites |-> F]
    ELSE [ok |-> TRUE, favorites |-> F \ {<<user_id, favorite_id>>}]

\* SELECT * FROM favorites WHERE user_id = ? AND favorite_id = ?
is_favorited(F, user_id, favorite_id, raised) ==
    IF raised THEN FALSE ELSE <<user_id, favorite_id>> \in F

\* INSERT OR IGNORE INTO reports (reporter_id, reported_id, reason); the
\* primary key is (reporter_id, reported_id)
report_user(U, R, reporter_id, reported_id, reason, raised) ==
    IF raised \/ ~ForeignKeyOk(U, reporter_id, reported_id)
    THEN [ok |-> FALSE, reports |-> R]
    ELSE [ok |-> TRUE,
          reports |-> IF \E r \in R : r[1] = reporter_id /\ r[2] = reported_id
                      THEN R
                      ELSE R \cup {<<reporter_id, reported_id, reason>>}]

\* The rows  ORDER BY RANDOM() LIMIT 1  draws from (exclude_blocked = True)
get_random_user(U, B, exclude_id) ==
    {u \in DOMAIN U : u # exclude_id /\ <<exclude_id, u>> \notin B}

\* get_users_with_filters with  age > ?  for the minimum age
get_users_with_filters_exclusive(U, exclude_id, min_age, max_age, department) ==
    {u \in DOMAIN U :
        /\ u # exclude_id
        /\ (min_age # None => U[u].age > min_age)
        /\ (max_age # None => U[u].age <= max_age)
        /\ (department # NoText => LikeContains(U[u].department, department))}

\* The rows the filtered query draws from: the WHERE clause built from the
\* filters that are not None (department: that are truthy)
get_users_with_filters(U, exclude_id, min_age, max_age, department) ==
    {u \in DOMAIN U :
        /\ u # exclude_id
        /\ (min_age # None => U[u].age >= min_age)
        /\ (max_age # None => U[u].age <= max_age)
        /\ (department # NoText => LikeContains(U[u].department, department))}

----------------------------------------------------------------------------
(* handlers/browse_handler.py *)

Msg(to, kind, about) == [to |-> to, kind |-> kind, about |-> about]

\* No handler of the user is in flight
Idle == [step |-> "idle", cmd |-> "none", arg |-> 0, matched |-> FALSE]

\* A handler is suspended in its awaits with show_next_profile still to run;
\* cmd and arg are the callback data it handles, matched the branch it took
Showing(cmd, arg, matched) ==
    [step |-> "show", cmd |-> cmd, arg |-> arg, matched |-> matched]

\* any(prefs.values()): some filter is set
AnyPref(p) == p.min_age # None \/ p.max_age # None \/ p.department # NoText

\* show_next_profile that draws from all profiles when the filters leave none
show_next_profile_fallback(U, B, P, user_id) ==
    IF /\ user_id \in DOMAIN P
       /\ AnyPref(P[user_id])
       /\ get_users_with_filters(U, user_id, P[user_id].min_age,
                                 P[user_id].max_age, P[user_id].department) # {}
    THEN get_users_with_filters(U, user_id, P[user_id].min_age,
                                P[user_id].max_age, P[user_id].department)
    ELSE get_random_user(U, B, user_id)

\* show_next_profile: the rows the query of the chosen branch draws from
show_next_profile(U, B, P, user_id) ==
    IF user_id \in DOMAIN P /\ AnyPref(P[user_id])
    THEN get_users_with_filters(U, user_id, P[user_id].min_age,
                                P[user_id].max_age, P[user_id].department)
    ELSE get_random_user(U, B, user_id)

\* The pending show_next_profile of a handler of user_id runs: one row is
\* drawn at random and sent, or "No more users found" when the query
\* returns nothing or raises (the functions return None on an exception).
ShowNextProfile(user_id, raised) ==
    /\ pc[user_id].step = "show"
    /\ pc' = [pc EXCEPT ![user_id] = Idle]
    /\ LET rows == show_next_profile(users, blocks, prefs, user_id) IN
        IF raised \/ rows = {}
        THEN sent' = Msg(user_id, "no_users", 0)
        ELSE \E uid \in rows : sent' = Msg(user_id, "profile", uid)
    /\ UNCHANGED <<storeVars, prefs, session, called, limiterVars>>

\* The outcome of the like branch of handle_callback up to its first await:
\* add_like, then check_match, then save_match, with no await in between.
\* fault names the store call that raises ("none": no call raises).
\* the like branch undoing the like when save_match reports failure
record_like_undo(U, L, M, user_id, liked_id, fault) ==
    LET a == add_like(U, L, user_id, liked_id, fault = "add_like")
        m == save_match(U, M, user_id, liked_id, fault = "save_match")
    IN  IF ~a.ok
        THEN [ok |-> FALSE, checked |-> FALSE, matched |-> FALSE, saved |-> FALSE,
              likes |-> a.likes, matches |-> M]
        ELSE IF check_match(a.likes, user_id, liked_id, fault = "check_match")
             THEN IF m.ok
                  THEN [ok |-> TRUE, checked |-> TRUE, matched |-> TRUE, saved |-> TRUE,
                        likes |-> a.likes, matches |-> m.matches]
                  ELSE [ok |-> FALSE, checked |-> TRUE, matched |-> FALSE, saved |-> FALSE,
                        likes |-> L, matches |-> M]
             ELSE [ok |-> TRUE, checked |-> TRUE, matched |-> FALSE, saved |-> FALSE,
                   likes |-> a.likes, matches |-> M]

\* checked tells whether check_match was called, saved whether save_match
\* reported success.
record_like(U, L, M, user_id, liked_id, fault) ==
    LET a == add_like(U, L, user_id, liked_id, fault = "add_like") IN
    IF ~a.ok
    THEN [ok |-> FALSE, checked |-> FALSE, matched |-> FALSE, saved |-> FALSE,
          likes |-> a.likes, matches |-> M]
    ELSE IF check_match(a.likes, user_id, liked_id, fault = "check_match")
         THEN LET m == save_match(U, M, user_id, liked_id, fault = "save_match")
              IN  [ok |-> TRUE, checked |-> TRUE, matched |-> TRUE, saved |-> m.ok,
                   likes |-> a.likes, matches |-> m.matches]
         ELSE [ok |-> TRUE, checked |-> TRUE, matched |-> FALSE, saved |-> FALSE,
               likes |-> a.likes, matches |-> M]

LikeFaults == {"none", "add_like", "check_match", "save_match"}

\* handle_callback, data = "like_<liked_id>"
HandleLike(user_id, liked_id, fault) ==
    /\ pc[user_id] = Idle
    /\ LET r == record_like(users, likes, matches, user_id, liked_id, fault) IN
        /\ likes' = r.likes
        /\ matches' = r.matches
        /\ sent' = Msg(user_id,
                       IF ~r.ok THEN "like_failed"
                       ELSE IF r.matched THEN "match" ELSE "liked",
                       liked_id)
        /\ pc' = [pc EXCEPT ![user_id] =
                    IF r.ok THEN Showing("like", liked_id, r.matched) ELSE Idle]
    /\ UNCHANGED <<users, blocks, favorites, reports, prefs, session, called, limiterVars>>

\* handle_callback, data = "favorite_<favorite_id>"
HandleFavorite(user_id, favorite_id, raised) ==
    /\ pc[user_id] = Idle
    /\ LET r == add_favorite(users, favorites, user_id, favorite_id, raised) IN
        /\ favorites' = r.favorites
        /\ sent' = Msg(user_id, IF r.ok THEN "favorited" ELSE "favorite_failed",
                       favorite_id)
    /\ UNCHANGED <<users, likes, matches, blocks, reports, prefs, session, pc, called, limiterVars>>

\* handle_callback, data = "unfavorite_<favorite_id>"
HandleUnfavorite(user_id, favorite_id, raised) ==
    /\ pc[user_id] = Idle
    /\ LET r == remove_favorite(favorites, user_id, favorite_id, raised) IN
        /\ favorites' = r.favorites
        /\ sent' = Msg(user_id, IF r.ok THEN "unfavorited" ELSE "unfavorite_failed",
                       favorite_id)
    /\ UNCHANGED <<users, likes, matches, blocks, reports, prefs, session, pc, called, limiterVars>>

\* handle_callback, data = "block_<blocked_id>"
HandleBlock(user_id, blocked_id, raised) ==
    /\ pc[user_id] = Idle
    /\ LET r == block_user(users, blocks, user_id, blocked_id, raised) IN
        /\ blocks' = r.blocks
        /\ sent' = Msg(user_id, IF r.ok THEN "blocked" ELSE "block_failed", blocked_id)
        /\ pc' = [pc EXCEPT ![user_id] =
                    IF r.ok THEN Showing("block", blocked_id, FALSE) ELSE Idle]
    /\ UNCHANGED <<users, likes, matches, favorites, reports, prefs, session, called, limiterVars>>

\* handle_callback, data = "pass", "skip" or "refresh"
HandlePass(user_id) ==
    /\ pc[user_id] = Idle
    /\ sent' = Msg(user_id, "answer", 0)
    /\ pc' = [pc EXCEPT ![user_id] = Showing("pass", 0, FALSE)]
    /\ UNCHANGED <<storeVars, prefs, session, called, limiterVars>>

----------------------------------------------------------------------------
(* handlers/preferences_handler.py and handlers/menu_handler.py *)

NoPrefs == [min_age |-> None, max_age |-> None, department |-> NoText]

DeptCS == <<"C", "S">>
DeptEng == <<"E", "N">>
DeptBus == <<"B", "U">>

PrefData == {"pref_age_all", "pref_age_18_25", "pref_age_26_30", "pref_age_31_plus",
             "pref_dept_all", "pref_dept_cs", "pref_dept_eng", "pref_dept_bus",
             "pref_apply", "pref_clear", "pref_cancel"}

\* The preferences dict after a filter button: the branch of data
set_preference(p, data) ==
    CASE data = "pref_age_all"     -> [p EXCEPT !.min_age = None, !.max_age = None]
      [] data = "pref_age_18_25"   -> [p EXCEPT !.min_age = 18, !.max_age = 25]
      [] data = "pref_age_26_30"   -> [p EXCEPT !.min_age = 26, !.max_age = 30]
      [] data = "pref_age_31_plus" -> [p EXCEPT !.min_age = 31, !.max_age = None]
      [] data = "pref_dept_all"    -> [p EXCEPT !.department = NoText]
      [] data = "pref_dept_cs"     -> [p EXCEPT !.department = DeptCS]
      [] data = "pref_dept_eng"    -> [p EXCEPT !.department = DeptEng]
      [] data = "pref_dept_bus"    -> [p EXCEPT !.department = DeptBus]
      [] OTHER -> p

\* handle_preferences_callback, data = "pref_..."
HandlePreferences(user_id, data, raised) ==
    /\ pc[user_id] = Idle
    /\ data \in PrefData
    /\ LET p == IF user_id \in DOMAIN prefs THEN prefs[user_id] ELSE NoPrefs
           with(q) == [x \in DOMAIN prefs \cup {user_id} |->
                          IF x = user_id THEN q ELSE prefs[x]]
       IN
        IF data \in {"pref_clear", "pref_cancel"}
        THEN /\ prefs' = [x \in DOMAIN prefs \ {user_id} |-> prefs[x]]
             /\ sent' = Msg(user_id, "answer", 0)
             /\ pc' = pc
        ELSE IF data = "pref_apply"
        THEN /\ prefs' = with(p)
             /\ LET rows == get_users_with_filters(users, user_id, p.min_age,
                                                   p.max_age, p.department) IN
                 IF raised \/ rows = {}
                 THEN /\ sent' = Msg(user_id, "no_users_filtered", 0)
                      /\ pc' = pc
                 ELSE /\ sent' = Msg(user_id, "answer", 0)
                      /\ pc' = [pc EXCEPT ![user_id] = Showing("pref_apply", 0, FALSE)]
        ELSE /\ prefs' = with(set_preference(p, data))
             /\ sent' = Msg(user_id, "answer", 0)
             /\ pc' = pc
    /\ UNCHANGED <<storeVars, session, called, limiterVars>>

\* handle_inline_menu_callback, data = "menu_browse"
HandleMenuBrowse(user_id) ==
    /\ pc[user_id] = Idle
    /\ IF ~user_exists(users, user_id)
       THEN /\ sent' = Msg(user_id, "no_profile", 0)
            /\ pc' = pc
       ELSE /\ sent' = Msg(user_id, "answer", 0)
            /\ pc' = [pc EXCEPT ![user_id] = Showing("menu_browse", 0, FALSE)]
    /\ UNCHANGED <<storeVars, prefs, session, called, limiterVars>>

----------------------------------------------------------------------------
(* utils/validators.py, with the str methods and conversions it calls.  A   *)
(* text is a sequence of one-character strings.                            *)

\* the whitespace characters of the texts of the model
Whitespace == {" ", "\n"}

RECURSIVE lstrip(_)
lstrip(text) ==
    IF text # <<>> /\ text[1] \in Whitespace THEN lstrip(Tail(text)) ELSE text

RECURSIVE rstrip(_)
rstrip(text) ==
    IF text # <<>> /\ text[Len(text)] \in Whitespace
    THEN rstrip(SubSeq(text, 1, Len(text) - 1))
    ELSE text

\* str.strip()
strip(text) == rstrip(lstrip(text))

Digits == <<"0", "1", "2", "3", "4", "5", "6", "7", "8", "9">>

IsDigit(c) == \E i \in 1..Len(Digits) : Digits[i] = c

DigitValue(c) == (CHOOSE i \in 1..Len(Digits) : Digits[i] = c) - 1

RECURSIVE DigitsValue(_)
DigitsValue(text) ==
    IF text = <<>> THEN 0
    ELSE 10 * DigitsValue(SubSeq(text, 1, Len(text) - 1)) + DigitValue(text[Len(text)])

\* int(text): surrounding whitespace is dropped, then an optional sign and
\* one or more digits are read; anything else is a ValueError (ok = FALSE)
int(text) ==
    LET t == strip(text)
        signed == t # <<>> /\ t[1] \in {"+", "-"}
        body == IF signed THEN Tail(t) ELSE t
    IN  IF body # <<>> /\ \A i \in 1..Len(body) : IsDigit(body[i])
        THEN [ok |-> TRUE,
              value |-> IF signed /\ t[1] = "-" THEN 0 - DigitsValue(body)
                                                ELSE DigitsValue(body)]
        ELSE [ok |-> FALSE, value |-> 0]

RECURSIVE str(_)
\* str(n) of an integer
str(n) ==
    IF n < 0 THEN <<"-">> \o str(0 - n)
    ELSE IF n < 10 THEN <<Digits[n + 1]>>
    ELSE str(n \div 10) \o <<Digits[(n % 10) + 1]>>

\* validate_age: the pair (is_valid, age)
validate_age(age_str) ==
    LET age == int(strip(age_str)) IN
    IF age.ok /\ 16 <= age.value /\ age.value <= 100
    THEN [is_valid |-> TRUE, age |-> age.value]
    ELSE [is_valid |-> FALSE, age |-> None]

\* validate_text_length measuring the text as sent
validate_text_length_unstripped(text, min_length, max_length) ==
    /\ text # <<>>
    /\ min_length <= Len(text)
    /\ Len(text) <= max_length

validate_text_length(text, min_length, max_length) ==
    /\ text # <<>>
    /\ min_length <= Len(strip(text))
    /\ Len(strip(text)) <= max_length

validate_name(name) == validate_text_length(name, 2, 50)

validate_bio(bio) == validate_text_length(bio, 10, 500)

validate_department(dept) == validate_text_length(dept, 2, 100)

----------------------------------------------------------------------------
(* handlers/start_handler.py: the photo step of handle_registration, which  *)
(* writes the collected profile with save_user and, when the save          *)
(* succeeds, clears context.user_data, the preferences with it.            *)

Profile(age, department) == [age |-> age, department |-> department]

\* context.user_data.clear() removes the preferences too
Cleared(P, user_id) == [x \in DOMAIN P \ {user_id} |-> P[x]]

\* context.user_data without registration keys: get('step', '') is '' and
\* get of a field is None
NoSession ==
    [step |-> "", name |-> NoText, age |-> NoText, department |-> NoText,
     bio |-> NoText, reporting_id |-> None]

\* A registration conversation that has collected profile, at its photo step
RegisterProfile(user_id, profile, raised) ==
    /\ LET r == save_user(users, user_id, profile, raised) IN
        /\ users' = r.users
        /\ sent' = Msg(user_id, IF r.ok THEN "profile_saved" ELSE "save_failed", 0)
        /\ prefs' = IF r.ok THEN Cleared(prefs, user_id) ELSE prefs
        /\ session' = IF r.ok THEN [session EXCEPT ![user_id] = NoSession] ELSE session
    /\ UNCHANGED <<likes, matches, blocks, favorites, reports, pc, called, limiterVars>>

\* a row of the users table with all its columns
FullProfile(name, age, department, bio, photo_id) ==
    [name |-> name, age |-> age, department |-> department, bio |-> bio,
     photo_id |-> photo_id]

\* the text steps of handle_registration storing the text as it was sent
handle_registration_text_raw(s, text) ==
    CASE s.step = "name" ->
            IF validate_name(text)
            THEN [session |-> [s EXCEPT !.name = text, !.step = "age"],
                  reply |-> "ask_age"]
            ELSE [session |-> s, reply |-> "invalid_name"]
      [] s.step = "age" ->
            IF validate_age(text).is_valid
            THEN [session |-> [s EXCEPT !.age = text, !.step = "department"],
                  reply |-> "ask_department"]
            ELSE [session |-> s, reply |-> "invalid_age"]
      [] s.step = "department" ->
            IF validate_department(text)
            THEN [session |-> [s EXCEPT !.department = text, !.step = "bio"],
                  reply |-> "ask_bio"]
            ELSE [session |-> s, reply |-> "invalid_department"]
      [] s.step = "bio" ->
            IF validate_bio(text)
            THEN [session |-> [s EXCEPT !.bio = text, !.step = "photo"],
                  reply |-> "ask_photo"]
            ELSE [session |-> s, reply |-> "invalid_bio"]
      [] OTHER -> [session |-> s, reply |-> "none"]

\* handle_registration on a message with a text (and so without a photo):
\* the user_data after it and the reply ("none": nothing is sent).  With no
\* step set, a menu label and any other text alike change nothing here.
handle_registration_text(s, text) ==
    CASE s.step = "name" ->
            IF validate_name(text)
            THEN [session |-> [s EXCEPT !.name = strip(text), !.step = "age"],
                  reply |-> "ask_age"]
            ELSE [session |-> s, reply |-> "invalid_name"]
      [] s.step = "age" ->
            IF validate_age(text).is_valid
            THEN [session |-> [s EXCEPT !.age = str(validate_age(text).age),
                                        !.step = "department"],
                  reply |-> "ask_department"]
            ELSE [session |-> s, reply |-> "invalid_age"]
      [] s.step = "department" ->
            IF validate_department(text)
            THEN [session |-> [s EXCEPT !.department = strip(text), !.step = "bio"],
                  reply |-> "ask_bio"]
            ELSE [session |-> s, reply |-> "invalid_department"]
      [] s.step = "bio" ->
            IF validate_bio(text)
            THEN [session |-> [s EXCEPT !.bio = strip(text), !.step = "photo"],
                  reply |-> "ask_photo"]
            ELSE [session |-> s, reply |-> "invalid_bio"]
      [] OTHER -> [session |-> s, reply |-> "none"]

\* the text of the command
StartCommand == <<"/", "s", "t", "a", "r", "t">>

\* The update "/start": the command handler start (group 0), then
\* handle_registration (group 1, filters.TEXT), which receives the same
\* message.  raised1 and raised2: the first and second user_exists raise.
Start(user_id, raised1, raised2) ==
    LET exists1 == ~raised1 /\ user_exists(users, user_id)
        exists2 == ~raised2 /\ user_exists(users, user_id)
        stepped == IF exists1 THEN session[user_id]
                              ELSE [session[user_id] EXCEPT !.step = "name"]
        started == IF exists2 THEN NoSession ELSE stepped
        r == handle_registration_text(started, StartCommand)
    IN  /\ session' = [session EXCEPT ![user_id] = r.session]
        /\ prefs' = IF exists2 THEN Cleared(prefs, user_id) ELSE prefs
        /\ sent' = Msg(user_id,
                       IF r.reply # "none" THEN r.reply
                       ELSE IF exists1 THEN "welcome_back" ELSE "welcome", 0)
        /\ UNCHANGED <<storeVars, pc, called, limiterVars>>

\* edit_profile that deletes the stored row when the edit begins
EditProfile_deleting(user_id) ==
    /\ pc[user_id] = Idle
    /\ user_exists(users, user_id)
    /\ users' = [x \in DOMAIN users \ {user_id} |-> users[x]]
    /\ session' = [session EXCEPT ![user_id].step = "name"]
    /\ sent' = Msg(user_id, "ask_name", 0)
    /\ UNCHANGED <<likes, matches, blocks, favorites, reports, prefs, pc, called,
                   limiterVars>>

\* handle_callback, data = "edit_profile"; the button is under the user's
\* own profile, which is shown only when the profile is stored
EditProfile(user_id) ==
    /\ pc[user_id] = Idle
    /\ user_exists(users, user_id)
    /\ session' = [session EXCEPT ![user_id].step = "name"]
    /\ sent' = Msg(user_id, "ask_name", 0)
    /\ UNCHANGED <<storeVars, prefs, pc, called, limiterVars>>

\* handle_registration on a text message that is no command
RegistrationText(user_id, text) ==
    LET r == handle_registration_text(session[user_id], text) IN
        /\ session' = [session EXCEPT ![user_id] = r.session]
        /\ sent' = IF r.reply = "none" THEN sent ELSE Msg(user_id, r.reply, 0)
        /\ UNCHANGED <<storeVars, prefs, pc, called, limiterVars>>

\* handle_registration that clears user_data also when save_user fails
handle_registration_photo_forgets(U, s, user_id, photo_id, raised) ==
    LET a == validate_age(s.age)
        r == save_user(U, user_id,
                       FullProfile(s.name, a.age, s.department, s.bio, photo_id),
                       raised)
    IN  IF NoText \in {s.name, s.age, s.department, s.bio}
        THEN [users |-> U, session |-> NoSession, cleared |-> TRUE,
              reply |-> "incomplete"]
        ELSE IF ~a.is_valid
        THEN [users |-> U, session |-> NoSession, cleared |-> TRUE,
              reply |-> "invalid_age_restart"]
        ELSE [users |-> r.users, session |-> NoSession, cleared |-> TRUE,
              reply |-> IF r.ok THEN "profile_saved" ELSE "save_failed"]

\* The photo branch of handle_registration (step = 'photo' and the message
\* has a photo) on the users table U and the user_data s: the new table, the
\* new user_data, whether user_data.clear() ran, and the reply
handle_registration_photo(U, s, user_id, photo_id, raised) ==
    LET a == validate_age(s.age)
        r == save_user(U, user_id,
                       FullProfile(s.name, a.age, s.department, s.bio, photo_id),
                       raised)
    IN  IF NoText \in {s.name, s.age, s.department, s.bio}
        THEN [users |-> U, session |-> NoSession, cleared |-> TRUE,
              reply |-> "incomplete"]
        ELSE IF ~a.is_valid
        THEN [users |-> U, session |-> NoSession, cleared |-> TRUE,
              reply |-> "invalid_age_restart"]
        ELSE [users |-> r.users,
              session |-> IF r.ok THEN NoSession ELSE s,
              cleared |-> r.ok,
              reply |-> IF r.ok THEN "profile_saved" ELSE "save_failed"]

\* handle_registration on a message with a photo (its text is None)
RegistrationPhoto(user_id, photo_id, raised) ==
    LET r == handle_registration_photo(users, session[user_id], user_id,
                                       photo_id, raised)
    IN  IF session[user_id].step # "photo"
        THEN UNCHANGED vars
        ELSE /\ users' = r.users
             /\ session' = [session EXCEPT ![user_id] = r.session]
             /\ prefs' = IF r.cleared THEN Cleared(prefs, user_id) ELSE prefs
             /\ sent' = Msg(user_id, r.reply, 0)
             /\ UNCHANGED <<likes, matches, blocks, favorites, reports, pc, called,
                            limiterVars>>

----------------------------------------------------------------------------
(* utils/rate_limiter.py.  time() is a float of seconds; the model counts   *)
(* milliseconds, so int(ban_until - now) is a division that truncates.      *)

MsPerSecond == 1000

Config(max_requests, time_window, ban_duration) ==
    [max_requests |-> max_requests, time_window |-> time_window,
     ban_duration |-> ban_duration]

\* is_allowed that counts the request being made: denies when the window
\* already holds max_requests - 1 timestamps
is_allowed_off_by_one(R, B, user_id, t, max_requests, time_window, ban_duration) ==
    IF user_id \in DOMAIN B /\ t < B[user_id]
    THEN [allowed |-> FALSE, remaining |-> (B[user_id] - t) \div MsPerSecond,
          expired |-> FALSE, requests |-> R, banned |-> B]
    ELSE LET expired == user_id \in DOMAIN B
             B1 == [x \in DOMAIN B \ {user_id} |-> B[x]]
             cutoff == t - time_window * MsPerSecond
             Recent(req_time) == req_time > cutoff
             kept == SelectSeq(R[user_id], Recent)
         IN  IF Len(kept) + 1 >= max_requests
             THEN [allowed |-> FALSE, remaining |-> ban_duration,
                   expired |-> expired,
                   requests |-> [R EXCEPT ![user_id] = kept],
                   banned |-> [x \in DOMAIN B1 \cup {user_id} |->
                                 IF x = user_id
                                 THEN t + ban_duration * MsPerSecond
                                 ELSE B1[x]]]
             ELSE [allowed |-> TRUE, remaining |-> 0, expired |-> expired,
                   requests |-> [R EXCEPT ![user_id] = Append(kept, t)],
                   banned |-> B1]

\* is_allowed that restarts the ban on every call made during the ban
is_allowed_extends_ban(R, B, user_id, t, max_requests, time_window, ban_duration) ==
    IF user_id \in DOMAIN B /\ t < B[user_id]
    THEN [allowed |-> FALSE, remaining |-> ban_duration,
          expired |-> FALSE, requests |-> R,
          banned |-> [B EXCEPT ![user_id] = t + ban_duration * MsPerSecond]]
    ELSE LET expired == user_id \in DOMAIN B
             B1 == [x \in DOMAIN B \ {user_id} |-> B[x]]
             cutoff == t - time_window * MsPerSecond
             Recent(req_time) == req_time > cutoff
             kept == SelectSeq(R[user_id], Recent)
         IN  IF Len(kept) >= max_requests
             THEN [allowed |-> FALSE, remaining |-> ban_duration,
                   expired |-> expired,
                   requests |-> [R EXCEPT ![user_id] = kept],
                   banned |-> [x \in DOMAIN B1 \cup {user_id} |->
                                 IF x = user_id
                                 THEN t + ban_duration * MsPerSecond
                                 ELSE B1[x]]]
             ELSE [allowed |-> TRUE, remaining |-> 0, expired |-> expired,
                   requests |-> [R EXCEPT ![user_id] = Append(kept, t)],
                   banned |-> B1]

\* is_allowed that never drops a timestamp
is_allowed_no_prune(R, B, user_id, t, max_requests, time_window, ban_duration) ==
    IF user_id \in DOMAIN B /\ t < B[user_id]
    THEN [allowed |-> FALSE, remaining |-> (B[user_id] - t) \div MsPerSecond,
          expired |-> FALSE, requests |-> R, banned |-> B]
    ELSE LET expired == user_id \in DOMAIN B
             B1 == [x \in DOMAIN B \ {user_id} |-> B[x]]
             kept == R[user_id]
         IN  IF Len(kept) >= max_requests
             THEN [allowed |-> FALSE, remaining |-> ban_duration,
                   expired |-> expired,
                   requests |-> [R EXCEPT ![user_id] = kept],
                   banned |-> [x \in DOMAIN B1 \cup {user_id} |->
                                 IF x = user_id
                                 THEN t + ban_duration * MsPerSecond
                                 ELSE B1[x]]]
             ELSE [allowed |-> TRUE, remaining |-> 0, expired |-> expired,
                   requests |-> [R EXCEPT ![user_id] = Append(kept, t)],
                   banned |-> B1]

\* RateLimiter.is_allowed at time t: the result (remaining: the seconds of
\* the reason text; expired: the call deleted an expired ban) and the
\* limiter's state after it
is_allowed(R, B, user_id, t, max_requests, time_window, ban_duration) ==
    IF user_id \in DOMAIN B /\ t < B[user_id]
    THEN [allowed |-> FALSE, remaining |-> (B[user_id] - t) \div MsPerSecond,
          expired |-> FALSE, requests |-> R, banned |-> B]
    ELSE LET expired == user_id \in DOMAIN B
             B1 == [x \in DOMAIN B \ {user_id} |-> B[x]]
             cutoff == t - time_window * MsPerSecond
             Recent(req_time) == req_time > cutoff
             kept == SelectSeq(R[user_id], Recent)
         IN  IF Len(kept) >= max_requests
             THEN [allowed |-> FALSE, remaining |-> ban_duration,
                   expired |-> expired,
                   requests |-> [R EXCEPT ![user_id] = kept],
                   banned |-> [x \in DOMAIN B1 \cup {user_id} |->
                                 IF x = user_id
                                 THEN t + ban_duration * MsPerSecond
                                 ELSE B1[x]]]
             ELSE [allowed |-> TRUE, remaining |-> 0, expired |-> expired,
                   requests |-> [R EXCEPT ![user_id] = Append(kept, t)],
                   banned |-> B1]

\* The steps of is_allowed with the pruning (lines 49-54) moved before the
\* ban check (lines 40-47)
is_allowed_prune_first(R, B, user_id, t, max_requests, time_window, ban_duration) ==
    LET cutoff == t - time_window * MsPerSecond
        Recent(req_time) == req_time > cutoff
        kept == SelectSeq(R[user_id], Recent)
        R1 == [R EXCEPT ![user_id] = kept]
    IN  IF user_id \in DOMAIN B /\ t < B[user_id]
        THEN [allowed |-> FALSE, remaining |-> (B[user_id] - t) \div MsPerSecond,
              expired |-> FALSE, requests |-> R1, banned |-> B]
        ELSE LET expired == user_id \in DOMAIN B
                 B1 == [x \in DOMAIN B \ {user_id} |-> B[x]]
             IN  IF Len(kept) >= max_requests
                 THEN [allowed |-> FALSE, remaining |-> ban_duration,
                       expired |-> expired, requests |-> R1,
                       banned |-> [x \in DOMAIN B1 \cup {user_id} |->
                                     IF x = user_id
                                     THEN t + ban_duration * MsPerSecond
                                     ELSE B1[x]]]
                 ELSE [allowed |-> TRUE, remaining |-> 0, expired |-> expired,
                       requests |-> [R EXCEPT ![user_id] = Append(kept, t)],
                       banned |-> B1]

\* The log after a call of user_id at time t: the allowed calls of the user
\* that are less than time_window old, the call itself when it is allowed
Logged(log, user_id, t, time_window, allowed) ==
    LET Young(req_time) == t - req_time < time_window * MsPerSecond
        young == SelectSeq(log[user_id], Young)
    IN  [log EXCEPT ![user_id] = IF allowed THEN Append(young, t) ELSE young]

\* reset that clears the limiter for every user
reset_everyone(R, B, user_id) ==
    [requests |-> [x \in DOMAIN R |-> <<>>], banned |-> <<>>]

\* RateLimiter.reset
reset(R, B, user_id) ==
    [requests |-> [R EXCEPT ![user_id] = <<>>],
     banned |-> [x \in DOMAIN B \ {user_id} |-> B[x]]]

\* the text of the command
BrowseCommand == <<"/", "b", "r", "o", "w", "s", "e">>

\* The update "/browse": browse_handler.browse (the rate limit check, then
\* the profile check, then show_next_profile, whose query runs before the
\* handler's first await), then handle_registration (group 1, filters.TEXT),
\* which receives the same message and replies last
Browse(user_id) ==
    /\ pc[user_id] = Idle
    /\ LET r == is_allowed(requests, banned, user_id, now, config.max_requests,
                           config.time_window, config.ban_duration)
           rows == show_next_profile(users, blocks, prefs, user_id)
           reg == handle_registration_text(session[user_id], BrowseCommand)
       IN
        /\ requests' = r.requests
        /\ banned' = r.banned
        /\ verdict' = [user |-> user_id, allowed |-> r.allowed,
                       remaining |-> r.remaining, expired |-> r.expired]
        /\ LET q == is_allowed_prune_first(ref.requests, ref.banned, user_id, now,
                                            config.max_requests, config.time_window,
                                            config.ban_duration)
           IN  ref' = IF ~ref.on THEN ref
                      ELSE [on |-> TRUE, requests |-> q.requests,
                            banned |-> q.banned, allowed |-> q.allowed,
                            log |-> Logged(ref.log, user_id, now,
                                           config.time_window, r.allowed)]
        /\ session' = [session EXCEPT ![user_id] = reg.session]
        /\ IF reg.reply # "none"
           THEN sent' = Msg(user_id, reg.reply, 0)
           ELSE IF ~r.allowed
           THEN sent' = Msg(user_id, "rate_limited", r.remaining)
           ELSE IF ~user_exists(users, user_id)
           THEN sent' = Msg(user_id, "no_profile", 0)
           ELSE IF rows = {}
           THEN sent' = Msg(user_id, "no_users", 0)
           ELSE \E uid \in rows : sent' = Msg(user_id, "profile", uid)
    /\ UNCHANGED <<storeVars, prefs, pc, called, now, config, scheduler>>

\* The labels of the reply keyboard (menu_handler.get_main_menu), character by
\* character: "@" is the pictograph the label begins with, "~" the variation
\* selector that follows it in two of the labels
LabelBrowse ==
    <<"@", " ", "B", "r", "o", "w", "s", "e", " ", "P", "r",
     "o", "f", "i", "l", "e", "s">>

LabelProfile == <<"@", " ", "M", "y", " ", "P", "r", "o", "f", "i", "l", "e">>

LabelMatches == <<"@", " ", "M", "y", " ", "M", "a", "t", "c", "h", "e", "s">>

LabelLikedMe == <<"@", " ", "L", "i", "k", "e", "d", " ", "M", "e">>

LabelStatistics ==
    <<"@", " ", "S", "t", "a", "t", "i", "s", "t", "i", "c",
     "s">>

LabelSettings == <<"@", "~", " ", "S", "e", "t", "t", "i", "n", "g", "s">>

LabelHelp == <<"@", "~", " ", "H", "e", "l", "p">>

LabelMenu == <<"@", " ", "M", "e", "n", "u">>

\* menu_buttons, the list in handle_registration and in handle_menu_buttons
menu_buttons ==
    {LabelBrowse, LabelProfile, LabelMatches, LabelLikedMe, LabelStatistics,
     LabelSettings, LabelHelp, LabelMenu}

\* handle_menu_buttons that does not look at the registration step
handle_menu_buttons_always(s, text) ==
    IF text \notin menu_buttons THEN "none"
    ELSE CASE text = LabelBrowse     -> "browse"
           [] text = LabelProfile    -> "show_profile"
           [] text = LabelMatches    -> "show_matches"
           [] text = LabelLikedMe    -> "show_liked_me"
           [] text = LabelStatistics -> "show_statistics"
           [] text = LabelSettings   -> "show_preferences"
           [] text = LabelHelp       -> "show_help"
           [] OTHER                  -> "show_inline_menu"

\* handle_menu_buttons on user_data s and the text of the message: the
\* function it goes on to call, "none" where it returns before
handle_menu_buttons(s, text) ==
    IF s.step # "" THEN "none"
    ELSE IF text \notin menu_buttons THEN "none"
    ELSE CASE text = LabelBrowse     -> "browse"
           [] text = LabelProfile    -> "show_profile"
           [] text = LabelMatches    -> "show_matches"
           [] text = LabelLikedMe    -> "show_liked_me"
           [] text = LabelStatistics -> "show_statistics"
           [] text = LabelSettings   -> "show_preferences"
           [] text = LabelHelp       -> "show_help"
           [] OTHER                  -> "show_inline_menu"

\* A text message that is no command: handle_registration (group 1), which
\* returns at once when no step is set and the text is a menu label, then
\* handle_menu_buttons (group 2) on the user_data the first handler left.
\* Its browse branch is browse_handler.browse; show_preferences stores the
\* empty preferences when none are stored; the other branches only reply.
TextMessage(user_id, text) ==
    /\ pc[user_id] = Idle
    /\ LET s == session[user_id]
           reg == IF s.step = "" /\ text \in menu_buttons
                  THEN [session |-> s, reply |-> "none"]
                  ELSE handle_registration_text(s, text)
           action == handle_menu_buttons(reg.session, text)
           r == is_allowed(requests, banned, user_id, now, config.max_requests,
                           config.time_window, config.ban_duration)
           q == is_allowed_prune_first(ref.requests, ref.banned, user_id, now,
                                       config.max_requests, config.time_window,
                                       config.ban_duration)
           rows == show_next_profile(users, blocks, prefs, user_id)
       IN
        /\ session' = [session EXCEPT ![user_id] = reg.session]
        /\ IF action = "browse"
           THEN /\ requests' = r.requests
                /\ banned' = r.banned
                /\ verdict' = [user |-> user_id, allowed |-> r.allowed,
                               remaining |-> r.remaining, expired |-> r.expired]
                /\ ref' = IF ~ref.on THEN ref
                          ELSE [on |-> TRUE, requests |-> q.requests,
                                banned |-> q.banned, allowed |-> q.allowed,
                                log |-> Logged(ref.log, user_id, now,
                                               config.time_window, r.allowed)]
                /\ IF ~r.allowed
                   THEN sent' = Msg(user_id, "rate_limited", r.remaining)
                   ELSE IF ~user_exists(users, user_id)
                   THEN sent' = Msg(user_id, "no_profile", 0)
                   ELSE IF rows = {}
                   THEN sent' = Msg(user_id, "no_users", 0)
                   ELSE \E uid \in rows : sent' = Msg(user_id, "profile", uid)
                /\ prefs' = prefs
           ELSE /\ UNCHANGED <<requests, banned, verdict, ref>>
                /\ prefs' = IF action = "show_preferences" /\ user_id \notin DOMAIN prefs
                            THEN [x \in DOMAIN prefs \cup {user_id} |->
                                    IF x = user_id THEN NoPrefs ELSE prefs[x]]
                            ELSE prefs
                /\ sent' = IF action # "none" THEN Msg(user_id, action, 0)
                           ELSE IF reg.reply # "none" THEN Msg(user_id, reg.reply, 0)
                           ELSE sent
    /\ UNCHANGED <<storeVars, pc, called, now, config, scheduler>>

\* handle_callback, data = "report_<reported_id>": the button under a shown
\* profile
HandleReport(user_id, reported_id) ==
    /\ pc[user_id] = Idle
    /\ session' = [session EXCEPT ![user_id].reporting_id = reported_id,
                                  ![user_id].step = "report_reason"]
    /\ sent' = Msg(user_id, "ask_report_reason", reported_id)
    /\ UNCHANGED <<storeVars, prefs, pc, called, limiterVars>>

\* handle_callback, data = "cancel_report"
CancelReport(user_id) ==
    /\ pc[user_id] = Idle
    /\ session' = [session EXCEPT ![user_id].reporting_id = None,
                                  ![user_id].step = ""]
    /\ sent' = Msg(user_id, "report_cancelled", 0)
    /\ UNCHANGED <<storeVars, prefs, pc, called, limiterVars>>

\* utils/scheduler.py.  A task is live from create_task until it ends; cancel()
\* leaves a cancellation pending, which ends the task at its next step.

\* the loops start() creates a task for, in its order
Loops == <<"_backup_loop", "_health_monitor_loop", "_optimization_loop">>

\* a bound on the length of _tasks: three calls of start that create tasks
MaxTasks == 9

\* start without its  if self.running: return
start_unguarded(S) ==
    [S EXCEPT !.running = TRUE,
              !.tasks = S.tasks \o [i \in 1..Len(Loops) |->
                                      [loop |-> Loops[i], state |-> "live"]]]

\* TaskScheduler.start
start(S) ==
    IF S.running THEN S
    ELSE [S EXCEPT !.running = TRUE,
                   !.tasks = S.tasks \o [i \in 1..Len(Loops) |->
                                           [loop |-> Loops[i], state |-> "live"]]]

\* TaskScheduler.stop up to its await: running is cleared and every task of
\* _tasks is cancelled (cancel() on a task that is done does nothing); the
\* gather waits for the tasks the list holds now
stop(S) ==
    [running |-> FALSE,
     tasks |-> [i \in 1..Len(S.tasks) |->
                  IF S.tasks[i].state = "live"
                  THEN [S.tasks[i] EXCEPT !.state = "cancelling"]
                  ELSE S.tasks[i]],
     stopping |-> S.stopping \cup {Len(S.tasks)}]

\* bot.post_init, or any other caller: await scheduler.start()
SchedulerStart ==
    /\ Len(scheduler.tasks) + Len(Loops) <= MaxTasks
    /\ scheduler' = start(scheduler)
    /\ UNCHANGED <<storeVars, chatVars, called, requests, banned, now, verdict,
                   config, ref>>

\* bot.post_shutdown, or any other caller: scheduler.stop() up to its await
SchedulerStop ==
    /\ scheduler' = stop(scheduler)
    /\ UNCHANGED <<storeVars, chatVars, called, requests, banned, now, verdict,
                   config, ref>>

\* The event loop runs task i, whose cancellation is pending: CancelledError
\* is raised at its await and the loop breaks (or the error leaves the
\* coroutine): the task is done
TaskCancelled(i) ==
    /\ i \in 1..Len(scheduler.tasks)
    /\ scheduler.tasks[i].state = "cancelling"
    /\ scheduler' = [scheduler EXCEPT !.tasks[i].state = "done"]
    /\ UNCHANGED <<storeVars, chatVars, called, requests, banned, now, verdict,
                   config, ref>>

\* The event loop runs live task i: the loop wakes from its sleep, finds
\* running set, does its work (every Exception is caught) and sleeps again
TaskWakes(i) ==
    /\ i \in 1..Len(scheduler.tasks)
    /\ scheduler.tasks[i].state = "live"
    /\ scheduler.running
    /\ UNCHANGED vars

\* stop() returns: the gather over the n tasks it waited for is complete
SchedulerStopReturns(n) ==
    /\ n \in scheduler.stopping
    /\ \A i \in 1..n : scheduler.tasks[i].state = "done"
    /\ scheduler' = [scheduler EXCEPT !.stopping = @ \ {n}]
    /\ UNCHANGED <<storeVars, chatVars, called, requests, banned, now, verdict,
                   config, ref>>

\* admin_handler.admin_command, "/admin reset <target_id>" from an admin
\* (the admin's chat is chat 0)
AdminReset(target_id) ==
    /\ LET r == reset(requests, banned, target_id) IN
        /\ requests' = r.requests
        /\ banned' = r.banned
    /\ LET q == reset(ref.requests, ref.banned, target_id) IN
        ref' = IF ~ref.on THEN ref
               ELSE [ref EXCEPT !.requests = q.requests, !.banned = q.banned]
    /\ sent' = Msg(0, "rate_limit_reset", target_id)
    /\ UNCHANGED <<storeVars, prefs, session, pc, called, now, verdict, config, scheduler>>

\* The clock advances by d milliseconds
Tick(d) ==
    /\ now + d <= MaxTime * MsPerSecond
    /\ now' = now + d
    /\ UNCHANGED <<storeVars, chatVars, called, requests, banned, verdict, config, ref,
                   scheduler>>

----------------------------------------------------------------------------
(* Calls of the functions of models/user_model.py with arguments of the     *)
(* caller's choice.                                                         *)

\* get_users_with_filters(exclude_id, min_age, max_age, department): one of
\* the rows of the query, or None when there is none or the store raises
GetUsersWithFilters(exclude_id, min_age, max_age, department, raised) ==
    /\ LET rows == get_users_with_filters(users, exclude_id, min_age, max_age,
                                          department)
       IN  \E result \in (IF raised THEN {} ELSE rows)
                          \cup (IF raised \/ rows = {} THEN {None} ELSE {}) :
                called' = [fn |-> "get_users_with_filters",
                           args |-> <<exclude_id, min_age, max_age, department>>,
                           result |-> result]
    /\ UNCHANGED <<storeVars, chatVars, limiterVars>>

ReportUser(reporter_id, reported_id, reason, raised) ==
    /\ LET r == report_user(users, reports, reporter_id, reported_id, reason, raised) IN
        /\ reports' = r.reports
        /\ called' = [fn |-> "report_user",
                      args |-> <<reporter_id, reported_id, reason>>, result |-> r.ok]
    /\ UNCHANGED <<users, likes, matches, blocks, favorites, chatVars, limiterVars>>

ValidateAge(age_str) ==
    /\ called' = [fn |-> "validate_age", args |-> <<age_str>>,
                  result |-> validate_age(age_str)]
    /\ UNCHANGED <<storeVars, chatVars, limiterVars>>

ValidateBio(bio) ==
    /\ called' = [fn |-> "validate_bio", args |-> <<bio>>,
                  result |-> validate_bio(bio)]
    /\ UNCHANGED <<storeVars, chatVars, limiterVars>>

----------------------------------------------------------------------------
(* Specifications *)

\* No call has been made to the store from outside the handlers
NoCall == [fn |-> "none", args |-> <<>>, result |-> None]

\* The limits config.py loads when the environment sets none
DefaultConfig == Config(RATE_LIMIT_REQUESTS, RATE_LIMIT_WINDOW, RATE_LIMIT_BAN_DURATION)

\* The limits config.py loads with RATE_LIMIT_REQUESTS=3 in the environment
SmallConfig == Config(3, RATE_LIMIT_WINDOW, RATE_LIMIT_BAN_DURATION)

\* The state after the modules are imported with the limits cfg: the schema
\* is created empty, RateLimiter() holds no requests and no bans, no
\* user_data exists.
InitCompared(cfg, compared) ==
    /\ users = <<>>
    /\ likes = {}
    /\ matches = {}
    /\ blocks = {}
    /\ favorites = {}
    /\ reports = {}
    /\ prefs = <<>>
    /\ session = [u \in Ids |-> NoSession]
    /\ called = NoCall
    /\ pc = [u \in Ids |-> Idle]
    /\ sent = Msg(0, "none", 0)
    /\ requests = [u \in Ids |-> <<>>]
    /\ banned = <<>>
    /\ now = 0
    /\ verdict = [user |-> 0, allowed |-> TRUE, remaining |-> 0, expired |-> FALSE]
    /\ scheduler = [running |-> FALSE, tasks |-> <<>>, stopping |-> {}]
    /\ ref = [on |-> compared, requests |-> [u \in Ids |-> <<>>], banned |-> <<>>,
              allowed |-> TRUE, log |-> [u \in Ids |-> <<>>]]
    /\ config = cfg

\* The same, the limiter that prunes first not run beside
InitWith(cfg) == InitCompared(cfg, FALSE)

Init == InitWith(DefaultConfig)

InitSmall == InitWith(SmallConfig)

\* Profiles registered in the runs that are about likes and matches
MatchProfiles == {Profile(20, DeptCS)}

\* Likes and matches: registrations, and like callbacks from the buttons the
\* bot sends (show_next_profile and the liked-me list name a row of the users
\* table, never the user themselves), pressed by any user, with any store
\* call failing
NextMatch ==
    \/ \E u \in Ids, p \in MatchProfiles, raised \in BOOLEAN : RegisterProfile(u, p, raised)
    \/ \E u \in Ids : \E t \in DOMAIN users \ {u}, f \in LikeFaults : HandleLike(u, t, f)
    \/ \E u \in Ids, raised \in BOOLEAN : ShowNextProfile(u, raised)

SpecMatch == Init /\ [][NextMatch]_vars

\* The like table under like callbacks with any target id, the user's own
\* included, the store not failing
NextViews ==
    \/ \E u \in Ids, p \in MatchProfiles : RegisterProfile(u, p, FALSE)
    \/ \E u \in Ids, t \in Ids : HandleLike(u, t, "none")
    \/ \E u \in Ids : ShowNextProfile(u, FALSE)

SpecViews == Init /\ [][NextViews]_vars

\* Favorites: registrations, likes and blocks that fill the other tables, and
\* the favorite and unfavorite buttons of a shown profile, either of which a
\* user can still press on an older message whatever the table holds now
NextFavorites ==
    \/ \E u \in Ids, p \in MatchProfiles : RegisterProfile(u, p, FALSE)
    \/ \E u \in Ids : \E t \in DOMAIN users \ {u} : HandleLike(u, t, "none")
    \/ \E u \in Ids : \E t \in DOMAIN users \ {u} : HandleBlock(u, t, FALSE)
    \/ \E u \in Ids : ShowNextProfile(u, FALSE)
    \/ \E u \in Ids : \E t \in DOMAIN users \ {u}, raised \in BOOLEAN :
            HandleFavorite(u, t, raised)
    \/ \E u \in Ids : \E t \in DOMAIN users \ {u}, raised \in BOOLEAN :
            HandleUnfavorite(u, t, raised)

SpecFavorites == Init /\ [][NextFavorites]_vars

\* The largest age and the longest text the validators are called with
MaxAgeInput == 120
MaxTextInput == 502

\* a text of n letters
Text(n) == [i \in 1..n |-> "a"]

\* How a text is sent: as it is, between blanks, or with a blank inside
Shapes == {"plain", "padded", "spaced"}

Shaped(text, shape) ==
    CASE shape = "plain" -> text
      [] shape = "padded" -> <<" ", "\n">> \o text \o <<" ">>
      [] shape = "spaced" -> [i \in 1..Len(text) |-> IF i = 2 /\ Len(text) > 2
                                                     THEN " " ELSE text[i]]

\* Ages written in decimal, as sent, signed, and texts that are no number
AgeTexts ==
    {Shaped(str(n), shape) : n \in 0..MaxAgeInput, shape \in {"plain", "padded"}}
        \cup {<<sign>> \o str(n) : sign \in {"+", "-"}, n \in 15..17}
        \cup {<<>>, <<" ">>, <<"x">>, <<"1", "x">>, <<"1", " ", "6">>, <<"+", " ", "1", "6">>}

BioTexts == {Shaped(Text(n), shape) : n \in 0..MaxTextInput, shape \in Shapes}

\* The validators called with every such text
NextValidate ==
    \/ \E age_str \in AgeTexts : ValidateAge(age_str)
    \/ \E bio \in BioTexts : ValidateBio(bio)

SpecValidate == Init /\ [][NextValidate]_vars

\* The user whose registration conversation is followed message by message
Registrants == {1}

\* The texts that user sends, at any step: one, two, fifty (between blanks),
\* 51, 101 and 501 letters, and the ages 15, 16 (between blanks) and 101
RegTexts ==
    {Text(1), Text(2), Shaped(Text(50), "padded"), Text(51), Text(101), Text(501),
     str(15), Shaped(str(16), "padded"), str(101)}

\* the file_id of the photo sent
PhotoIds == {"photo1"}

\* Registration: /start, the edit_profile button, texts and photos in any
\* order, each store call failing or not
NextReg ==
    \/ \E u \in Registrants, raised1 \in BOOLEAN, raised2 \in BOOLEAN :
            Start(u, raised1, raised2)
    \/ \E u \in Registrants : EditProfile(u)
    \/ \E u \in Registrants, text \in RegTexts : RegistrationText(u, text)
    \/ \E u \in Registrants, photo_id \in PhotoIds, raised \in BOOLEAN :
            RegistrationPhoto(u, photo_id, raised)

SpecReg == Init /\ [][NextReg]_vars

\* The texts sent in the runs that are about re-registration
OverwriteTexts == {Text(10), str(16)}

OverwritePhotoIds == {"photo1", "photo2"}

\* the profile of the users whose conversation is not followed
OtherProfile == FullProfile(Text(3), 20, DeptCS, Text(12), "photo3")

ReportReasons == {<<"s", "p", "a", "m">>}

\* Re-registration: one user's registration conversations, the other users
\* registering, likes between them, and blocks, favorites and reports that name the
\* user who registers again
NextOverwrite ==
    \/ \E u \in Registrants : Start(u, FALSE, FALSE)
    \/ \E u \in Registrants : EditProfile(u)
    \/ \E u \in Registrants, text \in OverwriteTexts : RegistrationText(u, text)
    \/ \E u \in Registrants, photo_id \in OverwritePhotoIds, raised \in BOOLEAN :
            RegistrationPhoto(u, photo_id, raised)
    \/ \E u \in Ids \ Registrants : RegisterProfile(u, OtherProfile, FALSE)
    \/ \E u \in Ids : \E t \in DOMAIN users \ {u} : HandleLike(u, t, "none")
    \/ \E u \in Ids : ShowNextProfile(u, FALSE)
    \/ \E u \in Ids \ Registrants : \E t \in DOMAIN users \ {u} :
            HandleBlock(u, t, FALSE)
    \/ \E u \in Ids \ Registrants : \E t \in DOMAIN users \ {u} :
            HandleFavorite(u, t, FALSE)
    \/ \E u \in Ids \ Registrants :
            \E t \in DOMAIN users \ {u}, reason \in ReportReasons :
                ReportUser(u, t, reason, FALSE)

SpecOverwrite == Init /\ [][NextOverwrite]_vars

\* The edges of the store: registrations, likes, blocks, favorites set and
\* removed, and browsing with no filter set, each store call failing or not
NextEdges ==
    \/ \E u \in Ids, p \in MatchProfiles, raised \in BOOLEAN : RegisterProfile(u, p, raised)
    \/ \E u \in Ids : \E t \in DOMAIN users \ {u}, f \in LikeFaults : HandleLike(u, t, f)
    \/ \E u \in Ids : \E t \in DOMAIN users \ {u}, raised \in BOOLEAN :
            HandleBlock(u, t, raised)
    \/ \E u \in Ids : \E t \in DOMAIN users \ {u} : HandleFavorite(u, t, FALSE)
    \/ \E u \in Ids : \E t \in DOMAIN users \ {u} : HandleUnfavorite(u, t, FALSE)
    \/ \E u \in Ids : HandlePass(u)
    \/ \E u \in Ids : HandleMenuBrowse(u)
    \/ \E u \in Ids, raised \in BOOLEAN : ShowNextProfile(u, raised)

SpecEdges == Init /\ [][NextEdges]_vars

\* Profiles registered in the runs that are about browsing
BrowseProfiles == {Profile(20, DeptCS), Profile(30, DeptEng)}

\* The filter buttons pressed in the runs that are about browsing
BrowsePrefData == {"pref_age_18_25", "pref_age_all", "pref_dept_cs",
                   "pref_apply", "pref_clear"}

\* Browsing: registrations, blocks of a shown profile, filter settings, and
\* the handlers that end in show_next_profile
NextBrowse ==
    \/ \E u \in Ids, p \in BrowseProfiles : RegisterProfile(u, p, FALSE)
    \/ \E u \in Ids : \E t \in DOMAIN users \ {u}, raised \in BOOLEAN :
            HandleBlock(u, t, raised)
    \/ \E u \in Ids : HandlePass(u)
    \/ \E u \in Ids, data \in BrowsePrefData, raised \in BOOLEAN :
            HandlePreferences(u, data, raised)
    \/ \E u \in Ids : HandleMenuBrowse(u)
    \/ \E u \in Ids, raised \in BOOLEAN : ShowNextProfile(u, raised)

SpecBrowse == Init /\ [][NextBrowse]_vars

\* The steps of the clock: 30 s, and half a second less than the ban
TickSteps == {30 * MsPerSecond, RATE_LIMIT_BAN_DURATION * MsPerSecond - 500}

\* The rate limiter: /browse commands, admin resets and the clock
NextRate ==
    \/ \E u \in Ids : Browse(u)
    \/ \E u \in Ids : AdminReset(u)
    \/ \E d \in TickSteps : Tick(d)

SpecRate == InitSmall /\ [][NextRate]_vars

\* Configurations the environment can set: the ban shorter than, equal to
\* and longer than the window, limits of one and two requests
RateConfigs ==
    {Config(1, 60, 30), Config(2, 60, 30), Config(2, 30, 30), Config(1, 30, 60)}

InitConfigs == \E cfg \in RateConfigs : InitCompared(cfg, TRUE)

\* the step of the clock
ConfigTickSteps == {30 * MsPerSecond}

\* The rate limiter under each of these configurations
NextConfigs ==
    \/ \E u \in Ids : Browse(u)
    \/ \E d \in ConfigTickSteps : Tick(d)

SpecConfigs == InitConfigs /\ [][NextConfigs]_vars

\* the step of the clock: the length of a ban
ThrottleTickSteps == {RATE_LIMIT_BAN_DURATION * MsPerSecond}

\* Every entry point that ends in a candidate profile or a like, with the
\* limiter at 3/60/300 and the clock
NextThrottle ==
    \/ \E u \in Ids, p \in MatchProfiles : RegisterProfile(u, p, FALSE)
    \/ \E u \in Ids : Browse(u)
    \/ \E u \in Ids : HandleMenuBrowse(u)
    \/ \E u \in Ids : HandlePass(u)
    \/ \E u \in Ids : \E t \in DOMAIN users \ {u} : HandleLike(u, t, "none")
    \/ \E u \in Ids : ShowNextProfile(u, FALSE)
    \/ \E d \in ThrottleTickSteps : Tick(d)

SpecThrottle == InitSmall /\ [][NextThrottle]_vars

\* the labels sent: of the browse button, of the settings button, and the
\* label of the help button, which is too short for a bio
MenuLabels == {LabelBrowse, LabelSettings, LabelHelp}

\* the text sent beside the menu labels: the age 16
MenuTexts == {str(16)}

\* Registration and menu: one user's /start, edit button, texts, menu labels
\* and photos in any order, the other user registering
NextMenu ==
    \/ \E u \in Registrants : Start(u, FALSE, FALSE)
    \/ \E u \in Registrants : EditProfile(u)
    \/ \E u \in Registrants, text \in MenuLabels \cup MenuTexts : TextMessage(u, text)
    \/ \E u \in Registrants, photo_id \in PhotoIds : RegistrationPhoto(u, photo_id, FALSE)
    \/ \E u \in Ids \ Registrants : RegisterProfile(u, OtherProfile, FALSE)

SpecMenu == InitSmall /\ [][NextMenu]_vars

\* Reporting: users registering once, the report button under a profile
\* shown to a registered user, the cancel button, and texts: a reason and
\* the label of the browse button
NextReport ==
    \/ \E u \in Ids \ DOMAIN users : RegisterProfile(u, OtherProfile, FALSE)
    \/ \E u \in DOMAIN users : \E t \in DOMAIN users \ {u} : HandleReport(u, t)
    \/ \E u \in Ids : CancelReport(u)
    \/ \E u \in Ids, text \in ReportReasons \cup {LabelBrowse} : TextMessage(u, text)

SpecReport == InitSmall /\ [][NextReport]_vars

\* The same, every user going on to send a reason whenever that text would
\* be acted on
SpecReportLive ==
    /\ SpecReport
    /\ \A u \in Ids :
          WF_vars(\E text \in ReportReasons : TextMessage(u, text))

\* The scheduler: calls of start and stop from any caller at any time, stop
\* calls overlapping start calls included, and the event loop running tasks
NextScheduler ==
    \/ SchedulerStart
    \/ SchedulerStop
    \/ \E i \in 1..MaxTasks : TaskCancelled(i)
    \/ \E i \in 1..MaxTasks : TaskWakes(i)
    \/ \E n \in 0..MaxTasks : SchedulerStopReturns(n)

SpecScheduler == Init /\ [][NextScheduler]_vars

\* The ids of the profiles of the runs that are about the filtered query
NumProfiles == 3

ProfileIds == 1..NumProfiles

\* Their profiles: ages 20, 30 and 40, the department of the second written
\* in lower case inside a longer text
FilterProfiles == {Profile(20, DeptCS), Profile(30, <<"x", "c", "s">>),
                   Profile(40, DeptEng)}

\* The age bounds and departments the query is called with
FilterMinAges == {None, 25, 30}
FilterMaxAges == {None, 30, 35}
FilterDepartments == {NoText, DeptCS}

\* The filtered query: registrations, and calls of the query with any filters
NextFilter ==
    \/ \E u \in ProfileIds, p \in FilterProfiles : RegisterProfile(u, p, FALSE)
    \/ \E e \in ProfileIds, lo \in FilterMinAges, hi \in FilterMaxAges,
          d \in FilterDepartments, raised \in BOOLEAN :
            GetUsersWithFilters(e, lo, hi, d, raised)

SpecFilter == Init /\ [][NextFilter]_vars

----------------------------------------------------------------------------
(* Claims *)

\* matches_of and likers_of of the specification
matches_of(user_id) == get_user_matches(users, likes, user_id)
likers_of(user_id) == get_users_who_liked_me(users, likes, user_id)

\* The handler of user_id is suspended after recording a like of liked_id
InFlightLike(user_id, liked_id) ==
    /\ pc[user_id].step = "show"
    /\ pc[user_id].cmd = "like"
    /\ pc[user_id].arg = liked_id

\* C1: for distinct profiles a and b, once the like of a for b is stored, a
\* like of b for a whose store calls all succeed reports matched = true, and
\* after it matches_of(a) contains b and matches_of(b) contains a.
C1_MutualLikeMatches ==
    [][\A a \in Ids, b \in Ids :
        ( /\ a # b
          /\ user_exists(users, a) /\ user_exists(users, b)
          /\ <<a, b>> \in likes
          /\ HandleLike(b, a, "none") )
        => ( /\ sent' = Msg(b, "match", a)
             /\ pc'[b].matched
             /\ b \in get_user_matches(users', likes', a)
             /\ a \in get_user_matches(users', likes', b) )]_vars

C1_Witness ==
    \E a \in Ids, b \in Ids :
        /\ a # b
        /\ sent = Msg(b, "match", a)
        /\ InFlightLike(b, a)
        /\ b \in matches_of(a)
        /\ a \in matches_of(b)

\* The normalized pair of a and b is a row of the matches table M
HasMatchRow(M, a, b) == <<Min(a, b), Max(a, b)>> \in M

Mutual(L, a, b) == <<a, b>> \in L /\ <<b, a>> \in L

NoneInFlight == \A u \in Ids : pc[u] = Idle

\* C3 as stated: whenever no like is being handled, the matches table holds
\* the normalized pair of a and b if and only if both likes exist.
C3_MatchIffMutual ==
    NoneInFlight =>
        \A a \in Ids, b \in Ids :
            HasMatchRow(matches, a, b) <=> Mutual(likes, a, b)

\* C3 as amended: every row of the matches table is a normalized pair whose
\* two likes exist; the mutual check is made on every stored like, so after
\* every like whose store calls all succeed the table holds the pair of liker
\* and liked if and only if both likes exist.
C3_MatchRowsSound ==
    /\ [](\A m \in matches :
            /\ m[1] <= m[2]
            /\ Mutual(likes, m[1], m[2]))
    /\ [][\A u \in Ids, t \in Ids :
            HandleLike(u, t, "none")
            => /\ <<u, t>> \in likes'
               /\ (HasMatchRow(matches', u, t) <=> Mutual(likes', u, t))]_vars

C3_Witness ==
    \E a \in Ids, b \in Ids :
        /\ a < b
        /\ NoneInFlight
        /\ Mutual(likes, a, b)
        /\ <<a, b>> \in matches
        /\ sent.kind = "profile"

\* The number of rows of the matches table M for the pair {a, b}
MatchRows(M, a, b) == Cardinality({<<a, b>>, <<b, a>>} \cap M)

C5_LikeIdempotent ==
    [][\A u \in Ids, t \in Ids, f \in LikeFaults :
        HandleLike(u, t, f)
        => /\ f # "add_like" => likes' = likes \cup {<<u, t>>}
           /\ <<u, t>> \in likes => likes' = likes]_vars

\* The like of u for t is handled while t is told of a match with u: the
\* row <<u, t>> was stored before, so this is a second like of u for t
C5_Witness ==
    \E u \in Ids, t \in Ids :
        /\ u # t
        /\ sent = Msg(u, "match", t)
        /\ InFlightLike(t, u)
        /\ pc[t].matched
        /\ <<u, t>> \in likes

\* C6 as stated: every id in the likes, matches and blocks tables is the id
\* of a row of the users table.
C6_ReferentialIntegrity ==
    \A r \in likes \cup matches \cup blocks :
        user_exists(users, r[1]) /\ user_exists(users, r[2])

\* C7: for every user a, likers_of(a) and matches_of(a) have no profile in
\* common.
C7_ViewsDisjoint ==
    \A a \in Ids : likers_of(a) \cap matches_of(a) = {}

\* b likes a and is a match of a, so b is a liker of a that likers_of leaves out
C7_Witness ==
    \E a \in Ids, b \in Ids :
        /\ <<b, a>> \in likes
        /\ b \in matches_of(a)
        /\ b \notin likers_of(a)

\* The profiles other than user_id
Others(user_id) == DOMAIN users \ {user_id}

\* C8: matches_of(a) is exactly the profiles u # a with likes a->u and u->a,
\* likers_of(a) is exactly the profiles u # a with a like u->a and no like
\* a->u, and together they are exactly the profiles other than a that like a.
C8_ViewsExact ==
    \A a \in Ids :
        /\ \A u \in Ids :
            /\ u \in matches_of(a)
               <=> (u \in Others(a) /\ <<a, u>> \in likes /\ <<u, a>> \in likes)
            /\ u \in likers_of(a)
               <=> (u \in Others(a) /\ <<u, a>> \in likes /\ <<a, u>> \notin likes)
        /\ matches_of(a) \cup likers_of(a) = {u \in Others(a) : <<u, a>> \in likes}

\* a has a profile, likes itself and has a match b, and a is neither its own
\* match nor its own liker, nor is b a liker of a
C8_Witness ==
    \E a \in Ids, b \in Ids :
        /\ a # b
        /\ user_exists(users, a)
        /\ <<a, a>> \in likes
        /\ matches_of(a) = {b}
        /\ likers_of(a) = {}

\* C2 as stated: a profile shown to a user as the next candidate is never
\* the user's own and never one the user has blocked.
C2_NeverSelfNorBlocked ==
    sent.kind = "profile"
    => /\ sent.about # sent.to
       /\ <<sent.to, sent.about>> \notin blocks

\* The ban of user_id in B is in force at time t
ActiveBan(B, user_id, t) == user_id \in DOMAIN B /\ t < B[user_id]

\* The timestamps of user_id in the window that trails the clock
InWindow(user_id) ==
    LET Trailing(req_time) == now - req_time < config.time_window * MsPerSecond
    IN  SelectSeq(requests[user_id], Trailing)

\* C9: with max_requests = 3, window = 60 s, ban = 300 s: a call of a user
\* with no ban and fewer than 3 calls recorded is allowed (the first 3 calls
\* of a fresh user); a call that finds 3 calls in the window is denied with a
\* retry-after above 0 and bans until 300 s later; a call made when the ban
\* duration has elapsed since that denial is allowed.
C9_ThreeThenBanThenAllow ==
    [][\A u \in Ids :
        (Browse(u) /\ config = Config(3, 60, 300))
        => /\ (u \notin DOMAIN banned /\ Len(requests[u]) < 3)
                => verdict'.allowed
           /\ (u \notin DOMAIN banned /\ Len(InWindow(u)) = 3)
                => /\ ~verdict'.allowed
                   /\ verdict'.remaining > 0
                   /\ u \in DOMAIN banned'
                   /\ banned'[u] = now + 300 * MsPerSecond
           /\ (u \in DOMAIN banned /\ now - (banned[u] - 300 * MsPerSecond)
                                        >= 300 * MsPerSecond)
                => verdict'.allowed]_vars

\* A call of u, banned before, is allowed at least 300 s after the denial
C9_Witness ==
    \E u \in Ids :
        /\ config = Config(3, 60, 300)
        /\ verdict = [user |-> u, allowed |-> TRUE, remaining |-> 0, expired |-> TRUE]
        /\ requests[u] = <<now>>
        /\ now >= 300 * MsPerSecond
        /\ u \notin DOMAIN banned

\* C10: on every call of u: u becomes banned exactly when u is not banned
\* and the call finds max_requests timestamps or more in the window, until
\* ban_duration later; a call during a ban is denied and leaves timestamps
\* and ban_until as they are; a denied call records no timestamp; an allowed
\* call records exactly its own; the state of the other users is untouched.
C10_LimiterStateMachine ==
    [][\A u \in Ids :
        Browse(u)
        => LET active == ActiveBan(banned, u, now)
               full == Len(InWindow(u)) >= config.max_requests
           IN  /\ (~active /\ ActiveBan(banned', u, now)) <=> (~active /\ full)
               /\ (~active /\ full)
                    => banned'[u] = now + config.ban_duration * MsPerSecond
               /\ active => /\ ~verdict'.allowed
                            /\ requests' = requests
                            /\ banned' = banned
               /\ ~verdict'.allowed
                    => requests'[u] \in {requests[u], InWindow(u)}
               /\ verdict'.allowed
                    => /\ requests'[u] = Append(InWindow(u), now)
                       /\ u \notin DOMAIN banned'
               /\ \A v \in Ids \ {u} :
                    /\ requests'[v] = requests[v]
                    /\ v \in DOMAIN banned' <=> v \in DOMAIN banned
                    /\ v \in DOMAIN banned => banned'[v] = banned[v]]_vars

\* u is denied during its ban, half a second before the ban ends
C10_Witness ==
    \E u \in Ids :
        /\ ActiveBan(banned, u, now)
        /\ verdict = [user |-> u, allowed |-> FALSE, remaining |-> 0, expired |-> FALSE]
        /\ sent = Msg(u, "rate_limited", 0)
        /\ Len(requests[u]) = config.max_requests

\* The text s with its letters folded to lower case
Fold(s) == [i \in 1..Len(s) |-> Lower(s[i])]

\* The profile u of the table U passes the filters that are supplied: its age
\* is at least min_age and at most max_age, and some stretch of its department
\* reads as the requested text, letter case apart
PassesFilters(U, u, min_age, max_age, department) ==
    /\ min_age = None \/ U[u].age \in min_age..100
    /\ max_age = None \/ U[u].age \in 0..max_age
    /\ department = NoText
       \/ \E i \in 1..Len(U[u].department), j \in 1..Len(U[u].department) :
            Fold(SubSeq(U[u].department, i, j)) = Fold(department)

\* C11: a call of the filtered query whose store does not raise returns a
\* profile other than the requester that passes every supplied filter, or
\* NotFound exactly when no such profile exists; and every such profile can
\* be returned by the call.
C11_FilteredSelection ==
    /\ [][LET a == called'.args IN
            (/\ called'.fn = "get_users_with_filters"
             /\ GetUsersWithFilters(a[1], a[2], a[3], a[4], FALSE))
            => LET valid == {u \in DOMAIN users \ {a[1]} :
                                PassesFilters(users, u, a[2], a[3], a[4])}
               IN  /\ called'.result # None => called'.result \in valid
                   /\ called'.result = None <=> valid = {}]_vars
    /\ [](\A e \in ProfileIds, lo \in FilterMinAges, hi \in FilterMaxAges,
            d \in FilterDepartments :
            \A u \in DOMAIN users \ {e} :
                PassesFilters(users, u, lo, hi, d)
                => ENABLED (/\ GetUsersWithFilters(e, lo, hi, d, FALSE)
                            /\ called'.result = u))

\* Profiles aged 20, 30 and 40 are stored and the query with min_age 25 and
\* max_age 35 has returned the one aged 30
C11_Witness ==
    /\ {users[u].age : u \in DOMAIN users} = {20, 30, 40}
    /\ called.fn = "get_users_with_filters"
    /\ called.args[2] = 25
    /\ called.args[3] = 35
    /\ called.args[4] = NoText
    /\ called.result \in DOMAIN users
    /\ users[called.result].age = 30

\* Some filter of user_id is set and no profile other than user_id passes
\* the filters of user_id
FiltersEliminateAll(user_id) ==
    /\ user_id \in DOMAIN prefs
    /\ AnyPref(prefs[user_id])
    /\ \A u \in DOMAIN users \ {user_id} :
        ~PassesFilters(users, u, prefs[user_id].min_age, prefs[user_id].max_age,
                       prefs[user_id].department)

\* C12: when the filters of a user eliminate every candidate, the
\* show_next_profile of any handler of the user sends "no users" and no
\* profile, and pref_apply reports that no users were found and shows nothing.
C12_NoUnfilteredFallback ==
    [][\A u \in Ids :
        FiltersEliminateAll(u)
        => /\ \A raised \in BOOLEAN :
                ShowNextProfile(u, raised) => sent' = Msg(u, "no_users", 0)
           /\ \A raised \in BOOLEAN :
                HandlePreferences(u, "pref_apply", raised)
                => /\ sent' = Msg(u, "no_users_filtered", 0)
                   /\ pc'[u] = Idle]_vars

\* u was sent "no users" under filters that eliminate every candidate while
\* a profile that u has not blocked exists
C12_Witness ==
    \E u \in Ids :
        /\ FiltersEliminateAll(u)
        /\ sent = Msg(u, "no_users", 0)
        /\ get_random_user(users, blocks, u) # {}


\* C13: when add_like fails inside the like branch, the user is told the like
\* failed, the likes and matches tables are unchanged, check_match is not
\* called and no match is announced (no next profile is drawn either).
C13_FailedLikeLeavesNoTrace ==
    [][\A u \in Ids, t \in Ids :
        HandleLike(u, t, "add_like")
            => /\ likes' = likes
               /\ matches' = matches
               /\ sent' = Msg(u, "like_failed", t)
               /\ pc'[u] = Idle
               /\ LET r == record_like(users, likes, matches, u, t, "add_like")
                  IN  ~r.ok /\ ~r.checked /\ ~r.matched]_vars

\* a like that failed although the reverse like was stored
C13_Witness ==
    \E u \in Ids, t \in Ids :
        /\ sent = Msg(u, "like_failed", t)
        /\ <<t, u>> \in likes
        /\ <<u, t>> \notin likes
        /\ matches = {}


\* C14: when a like is inserted, the reverse like exists and save_match fails,
\* the like stays stored, the user is told of the match, the matches table is
\* unchanged, and each of the two users is in the other's matches_of.
C14_MatchSaveFailureKeepsLike ==
    [][\A u \in Ids, t \in Ids :
        (HandleLike(u, t, "save_match") /\ <<t, u>> \in likes)
            => /\ likes' = likes \cup {<<u, t>>}
               /\ matches' = matches
               /\ sent' = Msg(u, "match", t)
               /\ pc'[u] = Showing("like", t, TRUE)
               /\ t \in matches_of(u)'
               /\ u \in matches_of(t)']_vars

\* a match was announced and both likes are stored, yet no row of the
\* matches table holds the pair
C14_Witness ==
    \E u \in Ids, t \in Ids :
        /\ sent = Msg(u, "match", t)
        /\ Mutual(likes, u, t)
        /\ ~HasMatchRow(matches, u, t)
        /\ t \in matches_of(u)
        /\ u \in matches_of(t)


\* C15: a store call that raises is never answered with a normal result: a
\* like whose check_match raises while the reverse like is stored is not
\* answered as an ordinary like without a match, and a show_next_profile
\* whose query raises while a profile is available is not answered with
\* "no more users".
C15_StoreFailureSurfaced ==
    [][\A u \in Ids :
        /\ \A t \in Ids :
              (HandleLike(u, t, "check_match") /\ <<t, u>> \in likes)
                  => sent' # Msg(u, "liked", t)
        /\ (ShowNextProfile(u, TRUE) /\ show_next_profile(users, blocks, prefs, u) # {})
              => sent' # Msg(u, "no_users", 0)]_vars


OthersFavorites(F, user_id) == {f \in F : f[1] # user_id}

\* C19: after an add_favorite that succeeded, is_favorited is true; after a
\* remove_favorite that succeeded, it is false; either one that failed leaves
\* the table as it was; adding a favorite that was not stored and removing
\* it gives back the table as it was; and neither changes the favorites of
\* other users or the likes, matches and blocks tables.
C19_FavoritesToggle ==
    /\ [][\A u \in Ids, t \in Ids, raised \in BOOLEAN :
            /\ HandleFavorite(u, t, raised)
                  => /\ IF raised THEN favorites' = favorites
                                  ELSE is_favorited(favorites', u, t, FALSE)
                     /\ sent'.kind = (IF raised THEN "favorite_failed" ELSE "favorited")
                     /\ OthersFavorites(favorites', u) = OthersFavorites(favorites, u)
                     /\ favorites' \ {<<u, t>>} = favorites \ {<<u, t>>}
                     /\ UNCHANGED <<likes, matches, blocks>>
            /\ HandleUnfavorite(u, t, raised)
                  => /\ IF raised THEN favorites' = favorites
                                  ELSE ~is_favorited(favorites', u, t, FALSE)
                     /\ sent'.kind = (IF raised THEN "unfavorite_failed" ELSE "unfavorited")
                     /\ OthersFavorites(favorites', u) = OthersFavorites(favorites, u)
                     /\ favorites' \ {<<u, t>>} = favorites \ {<<u, t>>}
                     /\ UNCHANGED <<likes, matches, blocks>>]_vars
    /\ [](\A u \in Ids, t \in Ids :
            ~is_favorited(favorites, u, t, FALSE)
                => remove_favorite(add_favorite(users, favorites, u, t, FALSE).favorites,
                                   u, t, FALSE).favorites = favorites)

\* a user has just removed a favorite while the other user's favorite and
\* rows of the likes and blocks tables are stored
C19_Witness ==
    \E u \in Ids, t \in Ids :
        /\ sent = Msg(u, "unfavorited", t)
        /\ ~is_favorited(favorites, u, t, FALSE)
        /\ is_favorited(favorites, t, u, FALSE)
        /\ likes # {}
        /\ blocks # {}


\* the length of a text without its leading and trailing whitespace
StrippedLen(text) ==
    LET inked == {i \in 1..Len(text) : text[i] \notin Whitespace}
    IN  IF inked = {} THEN 0
        ELSE (CHOOSE i \in inked : \A j \in inked : j <= i)
                 - (CHOOSE i \in inked : \A j \in inked : i <= j) + 1

\* C16: an age written in decimal, with or without surrounding blanks, is
\* accepted exactly if it is in 16..100 (15 and 101 rejected, 16 and 100
\* accepted) and the accepted value is that age; a bio is accepted exactly
\* if its length without surrounding whitespace is in 10..500 (9 and 501
\* rejected, 10 and 500 accepted).
C16_ValidationBoundaries ==
    /\ called.fn = "validate_age"
          => \A n \in 0..MaxAgeInput, shape \in {"plain", "padded"} :
                called.args[1] = Shaped(str(n), shape)
                    => called.result = [is_valid |-> n \in 16..100,
                                        age |-> IF n \in 16..100 THEN n ELSE None]
    /\ called.fn = "validate_bio"
          => called.result = (StrippedLen(called.args[1]) \in 10..500)

\* a bio of ten letters sent between blanks was accepted
C16_Witness ==
    /\ called.fn = "validate_bio"
    /\ Len(called.args[1]) = 13
    /\ StrippedLen(called.args[1]) = 10
    /\ called.result = TRUE


\* C17: every stored profile has an age in 16..100, a name of 2..50
\* characters, a department of 2..100 characters and a bio of 10..500
\* characters, whatever /start, edit_profile, text and photo messages came.
C17_StoredProfilesValid ==
    \A u \in DOMAIN users :
        /\ users[u].age \in 16..100
        /\ Len(users[u].name) \in 2..50
        /\ Len(users[u].department) \in 2..100
        /\ Len(users[u].bio) \in 10..500

\* a profile is stored whose name was sent as fifty letters between blanks
\* and whose age was sent between blanks, after texts were refused
C17_Witness ==
    \E u \in DOMAIN users :
        /\ users[u].name = Text(50)
        /\ users[u].age = 16
        /\ Len(users[u].department) = 51
        /\ Len(users[u].bio) = 101
        /\ sent = Msg(u, "invalid_name", 0)


\* C20: a stored profile stays stored in every step; a photo step whose save
\* succeeds leaves the user's row holding exactly the name, age, department
\* and bio collected in the conversation and the photo sent, and leaves the
\* rows of all other users as they were; a save that fails leaves the users
\* table as it was; and no photo step changes a row of the likes, matches,
\* blocks, reports or favorites tables.
C20_ReRegistrationOverwrites ==
    /\ [][\A u \in Ids : user_exists(users, u) => user_exists(users', u)]_vars
    /\ [][\A u \in Ids, photo_id \in OverwritePhotoIds, raised \in BOOLEAN :
            (RegistrationPhoto(u, photo_id, raised) /\ session[u].step = "photo")
                => /\ UNCHANGED <<likes, matches, blocks, reports, favorites>>
                   /\ \A v \in DOMAIN users \ {u} : users'[v] = users[v]
                   /\ IF raised
                      THEN users' = users
                      ELSE /\ DOMAIN users' = DOMAIN users \cup {u}
                           /\ users'[u].name = session[u].name
                           /\ session[u].age = str(users'[u].age)
                           /\ users'[u].department = session[u].department
                           /\ users'[u].bio = session[u].bio
                           /\ users'[u].photo_id = photo_id]_vars

\* the user has just saved a profile while a like in each direction, the
\* match, and a block, a favorite and a report naming the user are stored:
\* rows that name only stored profiles, so the save was a re-registration
C20_Witness ==
    \E u \in Registrants, t \in Ids :
        /\ u \in DOMAIN users
        /\ users[u].name = Text(10)
        /\ users[u].department = str(16)
        /\ users[u].photo_id = "photo2"
        /\ sent = Msg(u, "profile_saved", 0)
        /\ Mutual(likes, u, t)
        /\ HasMatchRow(matches, u, t)
        /\ <<t, u>> \in blocks
        /\ <<t, u>> \in favorites
        /\ \E r \in reports : r[1] = t /\ r[2] = u


\* C21: no step removes a row of the likes, matches or blocks table; a user
\* who is in matches_of of another stays there in every later state; and
\* once a block of b by a is stored, b is never among the rows the
\* unfiltered query draws from for a, nor sent to a by a show_next_profile
\* that runs with no filter set.
C21_EdgesAppendOnly ==
    /\ [][/\ likes \subseteq likes'
          /\ matches \subseteq matches'
          /\ blocks \subseteq blocks']_vars
    /\ [][\A a \in Ids : matches_of(a) \subseteq matches_of(a)']_vars
    /\ [][\A a \in Ids, b \in Ids :
            <<a, b>> \in blocks
                => /\ b \notin get_random_user(users', blocks', a)
                   /\ \A raised \in BOOLEAN :
                        (ShowNextProfile(a, raised) /\ a \notin DOMAIN prefs)
                            => sent' # Msg(a, "profile", b)]_vars

\* a user who blocked the only other profile, a match of theirs, browsed and
\* was told there are no more users
C21_Witness ==
    \E a \in Ids, b \in Ids :
        /\ <<a, b>> \in blocks
        /\ b \in matches_of(a)
        /\ HasMatchRow(matches, a, b)
        /\ sent = Msg(a, "no_users", 0)
        /\ b \in DOMAIN users


\* the reasons and profiles a call is repeated with
RetryReasons == ReportReasons \cup {<<"f", "a", "k", "e">>}
RetryProfiles == {OtherProfile, FullProfile(Text(10), 16, str(16), Text(10), "photo1")}

ExpiredBan(B, user_id, t) == user_id \in DOMAIN B /\ t >= B[user_id]

\* C23 as stated: under every configuration with max_requests >= 1, the
\* first call of a banned user made at or after ban_until is allowed.
C23_AllowedOnExpiry ==
    [][\A u \in Ids :
        (Browse(u) /\ config.max_requests >= 1 /\ ExpiredBan(banned, u, now))
            => verdict'.allowed]_vars

\* C23, amended: the first call made at or after ban_until removes the ban
\* and is judged as a call of a user who is not banned: it is allowed
\* exactly if fewer than max_requests timestamps are left in the window,
\* and otherwise starts a new ban at the time of the call; it is always
\* allowed when max_requests >= 1 and ban_duration >= time_window.
C23_NormalCheckOnExpiry ==
    [][\A u \in Ids :
        (Browse(u) /\ ExpiredBan(banned, u, now))
            => /\ verdict'.expired
               /\ verdict'.allowed <=> Len(InWindow(u)) < config.max_requests
               /\ verdict'.allowed => u \notin DOMAIN banned'
               /\ ~verdict'.allowed
                    => /\ u \in DOMAIN banned'
                       /\ banned'[u] = now + config.ban_duration * MsPerSecond
               /\ (config.max_requests >= 1
                        /\ config.ban_duration >= config.time_window)
                    => verdict'.allowed]_vars

\* with the ban as long as the window, a call made exactly at ban_until
\* was allowed
C23_Witness ==
    \E u \in Ids :
        /\ config = Config(2, 30, 30)
        /\ verdict = [user |-> u, allowed |-> TRUE, remaining |-> 0, expired |-> TRUE]
        /\ requests[u] = <<now>>
        /\ u \notin DOMAIN banned


\* C24: every call made strictly before ban_until is denied with a number of
\* remaining seconds greater than 0.
C24_PositiveRetryAfter ==
    [][\A u \in Ids :
        (Browse(u) /\ ActiveBan(banned, u, now))
            => /\ ~verdict'.allowed
               /\ verdict'.remaining > 0]_vars

\* The timestamps of user_id that a pruning at time t keeps
Pruned(R, user_id, t, time_window) ==
    LET Recent(req_time) == req_time > t - time_window * MsPerSecond
    IN  SelectSeq(R[user_id], Recent)

\* C25: fed the same calls at the same times under the same configuration,
\* the limiter of the code (ban check, then pruning) and the limiter that
\* prunes first give the same allowed/denied result and hold the same
\* ban_until for every user after every call; their stored timestamps differ
\* only by stale ones that the code has not pruned yet.
C25_SameAsPruneFirst ==
    ref.on =>
        /\ verdict.allowed = ref.allowed
        /\ banned = ref.banned
        /\ \A u \in Ids :
              Pruned(requests, u, now, config.time_window)
                  = Pruned(ref.requests, u, now, config.time_window)

\* C25 witness: a call was answered during a ban, after which the code
\* still stores a timestamp that the limiter pruning first has dropped.
C25_Witness ==
    /\ ref.on
    /\ verdict.user \in Ids
    /\ ~verdict.allowed
    /\ ActiveBan(banned, verdict.user, now)
    /\ Len(requests[verdict.user]) > Len(ref.requests[verdict.user])

OnlyOf(R, B, user_id) ==
    [requests |-> [x \in DOMAIN R |-> IF x = user_id THEN R[x] ELSE <<>>],
     banned |-> [x \in DOMAIN B \cap {user_id} |-> B[x]]]

\* C27: a call or a reset of u leaves the timestamps and the ban of every
\* other user v as they are; the answer to a call of u is the answer the
\* limiter gives when it stores nothing of the other users; a reset of u
\* leaves u without timestamps and without ban, and a call of u in that
\* state is allowed when max_requests >= 1.
C27_PerUserIsolation ==
    [][\A u \in Ids :
        /\ (Browse(u) \/ AdminReset(u))
            => \A v \in Ids \ {u} :
                  /\ requests'[v] = requests[v]
                  /\ (v \in DOMAIN banned') = (v \in DOMAIN banned)
                  /\ v \in DOMAIN banned => banned'[v] = banned[v]
        /\ Browse(u)
            => LET own == OnlyOf(requests, banned, u)
                   alone == is_allowed(own.requests, own.banned, u, now,
                                       config.max_requests, config.time_window,
                                       config.ban_duration)
               IN  /\ verdict'.allowed = alone.allowed
                   /\ verdict'.remaining = alone.remaining
                   /\ requests'[u] = alone.requests[u]
                   /\ (u \in DOMAIN banned') = (u \in DOMAIN alone.banned)
                   /\ u \in DOMAIN banned' => banned'[u] = alone.banned[u]
        /\ AdminReset(u) => requests'[u] = <<>> /\ u \notin DOMAIN banned'
        /\ (Browse(u) /\ requests[u] = <<>> /\ u \notin DOMAIN banned
                /\ config.max_requests >= 1)
            => verdict'.allowed]_vars

\* C27 witness: u, whose last call was denied, has just been reset, and the
\* other user is still banned with a full window.
C27_Witness ==
    \E u \in Ids : \E v \in Ids \ {u} :
        /\ sent = Msg(0, "rate_limit_reset", u)
        /\ verdict.user = u /\ ~verdict.allowed
        /\ requests[u] = <<>> /\ u \notin DOMAIN banned
        /\ ActiveBan(banned, v, now)
        /\ Len(requests[v]) = config.max_requests

\* C28: while the limiter holds a running ban of u, no step sends u a
\* candidate profile and no step records a like of u.
C28_BanCoversEveryEntry ==
    [][\A u \in Ids :
        ActiveBan(banned, u, now)
        => /\ (sent'.to = u /\ sent'.kind = "profile") => sent' = sent
           /\ {l \in likes' : l[1] = u} = {l \in likes : l[1] = u}]_vars

\* The steps of the registration in their order, "" being no registration
\* under way (before /start, and after the profile is complete)
NextStep ==
    {<<"", "name">>, <<"name", "age">>, <<"age", "department">>,
     <<"department", "bio">>, <<"bio", "photo">>, <<"photo", "">>}

\* C29: the step of a user's registration changes, on one update, only to
\* the next step of name, age, department, bio, photo, complete (or back to
\* name, where /start or the edit button restarts it); a text that is
\* refused leaves the step and the collected fields as they were; and the
\* users table changes only when the user is at the photo step with name,
\* age, department and bio collected and the age valid.
C29_StepByStep ==
    [][\A u \in Registrants :
        /\ session'[u].step # session[u].step
            => \/ <<session[u].step, session'[u].step>> \in NextStep
               \/ session'[u].step = "name"
        /\ (sent' # sent /\ sent'.to = u
                /\ sent'.kind \in {"invalid_name", "invalid_age",
                                   "invalid_department", "invalid_bio"})
            => session'[u] = session[u]
        /\ users' # users
            => /\ session[u].step = "photo"
               /\ NoText \notin {session[u].name, session[u].age,
                                  session[u].department, session[u].bio}
               /\ validate_age(session[u].age).is_valid]_vars

\* The fields that the text steps collect
CollectedFields == {"name", "age", "department", "bio"}

\* C30: a photo sent at the photo step with the store working saves the
\* profile and clears the session; with save_user failing it leaves the
\* users table and the whole session as they were, and the same photo sent
\* again with the store working then saves the profile; and on user_data at
\* the photo step with one of the collected fields missing the photo branch
\* clears the session and leaves the users table alone.
C30_PhotoStepOutcomes ==
    [][\A u \in Registrants, photo_id \in PhotoIds, raised \in BOOLEAN :
        (RegistrationPhoto(u, photo_id, raised) /\ session[u].step = "photo")
        => /\ ~raised
                => /\ sent' = Msg(u, "profile_saved", 0)
                   /\ session'[u] = NoSession
                   /\ u \in DOMAIN users'
                   /\ users'[u].photo_id = photo_id
                   /\ users'[u].name = session[u].name
           /\ raised
                => /\ sent' = Msg(u, "save_failed", 0)
                   /\ session'[u] = session[u]
                   /\ users' = users
                   /\ LET again == handle_registration_photo(
                                       users', session'[u], u, photo_id, FALSE)
                      IN  /\ again.reply = "profile_saved"
                          /\ again.session = NoSession
                          /\ u \in DOMAIN again.users
           /\ \A f \in CollectedFields :
                LET part == [session[u] EXCEPT ![f] = NoText]
                    r == handle_registration_photo(users, part, u, photo_id, raised)
                IN  /\ r.reply = "incomplete"
                    /\ r.session = NoSession
                    /\ r.users = users]_vars

\* C30 witness: the save has just failed and the user is still at the photo
\* step with the four fields collected.
C30_Witness ==
    \E u \in Registrants :
        /\ sent = Msg(u, "save_failed", 0)
        /\ session[u].step = "photo"
        /\ NoText \notin {session[u].name, session[u].age,
                           session[u].department, session[u].bio}
        /\ u \notin DOMAIN users

\* C31: the row of a stored profile changes only in a photo step whose save
\* succeeds, and then to the name, age, department and bio collected and the
\* photo sent; the edit_profile button, every text of the conversation, a
\* /start that abandons it and a photo step whose save fails leave the users
\* table, and with it the rows every other user's show_next_profile draws
\* from, as they were.
C31_EditAllOrNothing ==
    [][\A u \in Registrants :
        /\ (user_exists(users, u) /\ (~user_exists(users', u) \/ users'[u] # users[u]))
            => /\ session[u].step = "photo"
               /\ sent' = Msg(u, "profile_saved", 0)
               /\ session'[u] = NoSession
               /\ users'[u].name = session[u].name
               /\ session[u].age = str(users'[u].age)
               /\ users'[u].department = session[u].department
               /\ users'[u].bio = session[u].bio
        /\ (\/ EditProfile(u)
            \/ Start(u, FALSE, FALSE)
            \/ \E text \in OverwriteTexts : RegistrationText(u, text)
            \/ \E photo_id \in OverwritePhotoIds : RegistrationPhoto(u, photo_id, TRUE))
            => /\ users' = users
               /\ \A v \in Ids \ {u} :
                     show_next_profile(users', blocks', prefs', v)
                        = show_next_profile(users, blocks, prefs, v)]_vars

\* C31 witness: an edit of a stored profile is at the photo step with a new
\* name collected, its save has just failed, and the stored row is the old one.
C31_Witness ==
    \E u \in Registrants :
        /\ user_exists(users, u)
        /\ session[u].step = "photo"
        /\ session[u].name # users[u].name
        /\ sent = Msg(u, "save_failed", 0)

\* The replies that come from a menu action
MenuReplies ==
    {"show_profile", "show_matches", "show_liked_me", "show_statistics",
     "show_preferences", "show_help", "show_inline_menu",
     "rate_limited", "no_profile", "no_users", "profile"}

\* C32: a text message that is a menu label, sent while a step is set, is
\* followed by no menu action: handle_menu_buttons returns on the user_data
\* that handle_registration left, the limiter and the preferences are not
\* touched and no reply of a menu action is sent; sent while no step is set,
\* it leaves the step and the collected fields as they were.
C32_RegistrationBeforeMenu ==
    [][\A u \in Registrants, label \in MenuLabels :
        TextMessage(u, label)
        => /\ session[u].step # ""
                => /\ handle_menu_buttons(session'[u], label) = "none"
                   /\ UNCHANGED <<requests, banned, verdict, prefs>>
                   /\ sent' = sent \/ sent'.kind \notin MenuReplies
           /\ session[u].step = ""
                => /\ session'[u] = session[u]
                   /\ sent'.kind \in MenuReplies]_vars

\* C32 witness: the label of the browse button was sent at the name step: it
\* was taken as the name, the reply asks for the age, and the limiter has
\* seen no request.
C32_Witness ==
    \E u \in Registrants :
        /\ session[u].step = "age"
        /\ session[u].name = LabelBrowse
        /\ sent = Msg(u, "ask_age", 0)
        /\ requests[u] = <<>>

\* C33: once the step of u is report_reason with reporting_id = t, the flow
\* comes to an end: the step of u is cleared, and either the report of t by
\* u is stored (the next text was taken as the reason) or the cancel button
\* has just been answered.
C33_ReportFlowCompletes ==
    \A u \in Ids, t \in Ids :
        (session[u].step = "report_reason" /\ session[u].reporting_id = t)
        ~> /\ session[u].step = ""
           /\ \/ \E r \in reports : r[1] = u /\ r[2] = t
              \/ sent = Msg(u, "report_cancelled", 0)

\* C34: every row of the matches table has user1_id < user2_id, and no like
\* callback whose target is the liker is told matched = true.
C34_NoSelfMatch ==
    /\ [](\A m \in matches : m[1] < m[2])
    /\ [][\A u \in Ids :
            HandleLike(u, u, "none")
            => /\ ~pc'[u].matched
               /\ sent' # Msg(u, "match", u)]_vars

\* the tasks of the scheduler that are not done
LiveTasks == {i \in 1..Len(scheduler.tasks) : scheduler.tasks[i].state # "done"}

\* C35: start() of a running scheduler leaves _tasks as it is; stop() clears
\* running and leaves no task of _tasks without a cancellation; and whenever
\* every stop call has returned, three tasks are live, one for each loop,
\* if running is set, and none is live if it is not.
C35_SchedulerLifecycle ==
    /\ [][(SchedulerStart /\ scheduler.running) => scheduler' = scheduler]_vars
    /\ [][SchedulerStop
            => /\ ~scheduler'.running
               /\ \A i \in 1..Len(scheduler'.tasks) :
                     scheduler'.tasks[i].state # "live"]_vars
    /\ [](scheduler.stopping = {}
            => /\ Cardinality(LiveTasks) = IF scheduler.running THEN Len(Loops) ELSE 0
               /\ scheduler.running
                    => {scheduler.tasks[i].loop : i \in LiveTasks}
                          = {Loops[k] : k \in 1..Len(Loops)}
               /\ \A i \in LiveTasks : scheduler.tasks[i].state = "live")

\* C35 witness: the scheduler was started, stopped and started again: it is
\* running, no stop call is pending, the first three tasks are done and the
\* last three are live.
C35_Witness ==
    /\ scheduler.running
    /\ scheduler.stopping = {}
    /\ Len(scheduler.tasks) = 6
    /\ LiveTasks = {4, 5, 6}


====
